---- MODULE Spec2Model ----
(***************************************************************************)
(* Model of the LLM response pipeline of commit-tutor/backend:             *)
(*   app/services/gemini_service.py     (model client, JSON decode/repair) *)
(*   app/services/quiz_generator.py     (quiz question normalization)      *)
(*   app/services/learning_session_service.py (session quiz parsing)       *)
(*   app/services/code_analyzer.py      (code-quality score validation)    *)
(*                                                                         *)
(* Python strings are sequences of one-character strings, so that strip,   *)
(* lower, startswith, isdigit, slicing and int() are computed the way the  *)
(* code computes them.  JSON values are tagged records of one shape:       *)
(*   [tag, n, s, l]  with tag in absent (key missing), none, int, bool,    *)
(*   float, str, list; n the number, s the characters, l the elements.     *)
(***************************************************************************)
EXTENDS Integers, Sequences, FiniteSets, TLC

VARIABLES
    op,          \* the call in progress
    pc,          \* its position
    calls,       \* [provider, decode, repair]: what the call has invoked so far
    request,     \* [question_count] of the quiz calls
    response,    \* what generate_json gives the quiz calls
    idx,         \* loop index over response["questions"] (0-based, as enumerate)
    lastNorm,    \* outcome of the last iteration (normalized_data, or a skip)
    questions,   \* the list `questions` being built
    result,      \* the QuizGenerationResponse returned, or the error raised
    reply,       \* generate_content: what the provider answers
    service,     \* GeminiService: is_configured, and whether json_repair imported
    text,        \* generate_json: response_text
    cleaned,     \* generate_json: cleaned_response
    repaired,    \* generate_json: the text repair_json gave
    returned,    \* generate_json: the object returned, or the error raised
    quality,     \* _validate_quality_scores: the raw quality dict
    scores,      \* _validate_quality_scores: the CodeQuality built, or the error
    inputs,      \* concurrent calls: what each call is given, and its reply
    frames,      \* concurrent calls: the locals of each coroutine
    singletons,  \* the module-level service objects, None until first asked for
    commit,      \* prompt builders: the commit whose files are embedded
    commit_info, \* prompt builders: what has been written for the files so far
    frame,       \* the locals of the endpoint or function that is running
    db,          \* the tables quizzes, quiz_attempts and reviews, and the clock
    requests     \* the requests being served against the tables, one frame each

commonVars == <<op, pc, calls>>
quizVars == <<request, response, idx, lastNorm, questions, result>>
jsonVars == <<reply, service, text, cleaned, repaired, returned>>
qualityVars == <<quality, scores>>
concurrentVars == <<inputs, frames, singletons>>
promptVars == <<commit, commit_info>>
endpointVars == <<frame, db, requests>>
vars == <<commonVars, quizVars, jsonVars, qualityVars, concurrentVars, promptVars,
         endpointVars>>

-----------------------------------------------------------------------------
(* Python str operations on character sequences *)

\* str.strip() drops more than the four characters JSON counts as whitespace
JsonWhitespace == {" ", "\n", "\t", "\r"}
Whitespace == JsonWhitespace \cup {"\f"}
DecimalDigits == <<"0", "1", "2", "3", "4", "5", "6", "7", "8", "9">>
\* "sup2" stands for the one character U+00B2: str.isdigit() is true of it,
\* int() raises ValueError on it.
OtherDigits == {"sup2"}
UpperAlpha == <<"A", "B", "C", "D", "E", "F", "G", "H", "I", "J", "K", "L", "M",
                "N", "O", "P", "Q", "R", "S", "T", "U", "V", "W", "X", "Y", "Z">>
LowerAlpha == <<"a", "b", "c", "d", "e", "f", "g", "h", "i", "j", "k", "l", "m",
                "n", "o", "p", "q", "r", "s", "t", "u", "v", "w", "x", "y", "z">>

IsDecimalChar(c) == \E i \in 1..Len(DecimalDigits) : DecimalDigits[i] = c
DigitValue(c) == (CHOOSE i \in 1..Len(DecimalDigits) : DecimalDigits[i] = c) - 1
IsDigitChar(c) == IsDecimalChar(c) \/ c \in OtherDigits

LowerChar(c) ==
    IF \E i \in 1..Len(UpperAlpha) : UpperAlpha[i] = c
    THEN LowerAlpha[CHOOSE i \in 1..Len(UpperAlpha) : UpperAlpha[i] = c]
    ELSE c

\* str.lower()
Lower(s) == [i \in 1..Len(s) |-> LowerChar(s[i])]

\* s without the leading and trailing characters that are in `chars`
StripOf(s, chars) ==
    LET keep == {i \in 1..Len(s) : s[i] \notin chars}
    IN  IF keep = {} THEN <<>>
        ELSE LET lo == CHOOSE i \in keep : \A j \in keep : i <= j
                 hi == CHOOSE i \in keep : \A j \in keep : j <= i
             IN  SubSeq(s, lo, hi)

\* str.strip()
Strip(s) == StripOf(s, Whitespace)

\* str.startswith(p)
StartsWith(s, p) == Len(s) >= Len(p) /\ SubSeq(s, 1, Len(p)) = p

\* str.endswith(p)
EndsWith(s, p) == Len(s) >= Len(p) /\ SubSeq(s, Len(s) - Len(p) + 1, Len(s)) = p

\* s[k:]  and  s[:-k]
DropFirst(s, k) == SubSeq(s, k + 1, Len(s))
DropLast(s, k) == SubSeq(s, 1, Len(s) - k)

\* str.isdigit(): non-empty and every character a digit
IsDigit(s) == Len(s) > 0 /\ \A i \in 1..Len(s) : IsDigitChar(s[i])

\* int(s) for a string of digits succeeds only on decimal digits
IntParses(s) == Len(s) > 0 /\ \A i \in 1..Len(s) : IsDecimalChar(s[i])

RECURSIVE ToInt(_)
ToInt(s) ==
    IF Len(s) = 0 THEN 0
    ELSE 10 * ToInt(SubSeq(s, 1, Len(s) - 1)) + DigitValue(s[Len(s)])

\* "".join(ch for ch in s if ch.isdigit())
DigitsOf(s) == SelectSeq(s, IsDigitChar)

\* first index at which p occurs in s, 0 when it does not (p in s)
Find(s, p) ==
    LET hits == {i \in 1..(Len(s) - Len(p) + 1) : SubSeq(s, i, i + Len(p) - 1) = p}
    IN  IF hits = {} THEN 0 ELSE CHOOSE i \in hits : \A j \in hits : i <= j

Contains(s, p) == Find(s, p) > 0

\* s.split(p, 1)[1]
AfterFirst(s, p) == DropFirst(s, Find(s, p) + Len(p) - 1)

\* s.split("\n")[0]
FirstLine(s) ==
    LET k == Find(s, <<"\n">>)
    IN  IF k = 0 THEN s ELSE SubSeq(s, 1, k - 1)

RECURSIVE NatToStr(_)
NatToStr(n) ==
    IF n < 10 THEN <<DecimalDigits[n + 1]>>
    ELSE NatToStr(n \div 10) \o <<DecimalDigits[(n % 10) + 1]>>

\* str(n) for an int
IntToStr(n) == IF n < 0 THEN <<"-">> \o NatToStr(0 - n) ELSE NatToStr(n)

-----------------------------------------------------------------------------
(* Decoded JSON values *)

Absent == [tag |-> "absent", n |-> 0, s |-> <<>>, l |-> <<>>]
None == [tag |-> "none", n |-> 0, s |-> <<>>, l |-> <<>>]
IntV(k) == [tag |-> "int", n |-> k, s |-> <<>>, l |-> <<>>]
\* a bool carries 1 for True and 0 for False
BoolV(b) == [tag |-> "bool", n |-> IF b THEN 1 ELSE 0, s |-> <<>>, l |-> <<>>]
\* a float is kept in tenths: FloatV(15) is 1.5
FloatV(tenths) == [tag |-> "float", n |-> tenths, s |-> <<>>, l |-> <<>>]
StrV(chars) == [tag |-> "str", n |-> 0, s |-> chars, l |-> <<>>]
ListV(elems) == [tag |-> "list", n |-> 0, s |-> <<>>, l |-> elems]
\* a dict is kept as the sequence of its <<key, value>> pairs
DictV(pairs) == [tag |-> "dict", n |-> 0, s |-> <<>>, l |-> pairs]
\* json.loads gives float("nan") for NaN, and float("inf") for Infinity and
\* for a number too large for a double, such as 1e999; n is the sign
NaN == [tag |-> "nan", n |-> 1, s |-> <<>>, l |-> <<>>]
Inf(sign) == [tag |-> "inf", n |-> sign, s |-> <<>>, l |-> <<>>]

\* dict.get(key) gives None for a missing key
IsNone(v) == v.tag \in {"absent", "none"}
IsStr(v) == v.tag = "str"
IsList(v) == v.tag = "list"
\* isinstance(v, int) is true of a bool as well
IsInt(v) == v.tag \in {"int", "bool"}

\* Python truth value
Truthy(v) ==
    CASE v.tag \in {"absent", "none"} -> FALSE
      [] v.tag \in {"int", "bool", "float", "nan", "inf"} -> v.n # 0
      [] v.tag = "str" -> v.s # <<>>
      [] v.tag \in {"list", "dict"} -> v.l # <<>>

s_None == <<"N", "o", "n", "e">>
s_True == <<"T", "r", "u", "e">>
s_False == <<"F", "a", "l", "s", "e">>

\* repr() of a list element (quotes inside a string are not escaped here)
PyRepr(v) ==
    CASE v.tag \in {"absent", "none"} -> s_None
      [] v.tag = "int" -> IntToStr(v.n)
      [] v.tag = "bool" -> IF v.n = 1 THEN s_True ELSE s_False
      [] v.tag = "float" -> IntToStr(v.n \div 10) \o <<".">> \o NatToStr(v.n % 10)
      [] v.tag = "str" -> <<"'">> \o v.s \o <<"'">>
      [] v.tag = "list" -> <<"[", "]">>

RECURSIVE JoinRepr(_)
JoinRepr(elems) ==
    IF Len(elems) = 0 THEN <<>>
    ELSE IF Len(elems) = 1 THEN PyRepr(elems[1])
    ELSE PyRepr(elems[1]) \o <<",", " ">> \o JoinRepr(Tail(elems))

\* str(v)
PyStr(v) ==
    CASE v.tag = "str" -> v.s
      [] v.tag = "list" -> <<"[">> \o JoinRepr(v.l) \o <<"]">>
      [] OTHER -> PyRepr(v)

-----------------------------------------------------------------------------
(* QuizGenerator: configuration set in __init__ *)

s_multiple == <<"m", "u", "l", "t", "i", "p", "l", "e">>
s_short == <<"s", "h", "o", "r", "t">>
s_subjective == <<"s", "u", "b", "j", "e", "c", "t", "i", "v", "e">>
s_descriptive == <<"d", "e", "s", "c", "r", "i", "p", "t", "i", "v", "e">>
s_open_hyphen_ended == <<"o", "p", "e", "n", "-", "e", "n", "d", "e", "d">>
s_open_ended == <<"o", "p", "e", "n", "_", "e", "n", "d", "e", "d">>
s_short_answer == <<"s", "h", "o", "r", "t", "_", "a", "n", "s", "w", "e", "r">>
s_objective == <<"o", "b", "j", "e", "c", "t", "i", "v", "e">>
s_multiple_choice == <<"m", "u", "l", "t", "i", "p", "l", "e", "_", "c", "h", "o", "i", "c", "e">>
s_mcq == <<"m", "c", "q">>
s_option == <<"o", "p", "t", "i", "o", "n">>
\* the marker "정답:" of the explanation text: "jeong" and "dap" stand for the
\* two Hangul syllables, one character each
s_answer_marker == <<"jeong", "dap", ":">>
s_ellipsis == <<".", ".", ".">>

\* self._type_aliases
TypeAliasesBroken(t) == t
TypeAliases(t) ==
    CASE t \in {s_subjective, s_descriptive, s_open_hyphen_ended, s_open_ended,
                s_short_answer} -> s_short
      [] t \in {s_objective, s_multiple_choice, s_mcq} -> s_multiple
      [] OTHER -> t

MaxCodeContextLength == 800
MaxOptions == 4

-----------------------------------------------------------------------------
(* QuizGenerator._normalize_question_data *)

\* A raw item of response["questions"]: a dict with these keys (Absent: the
\* key is missing), or something that is not a dict.
EmptyDict ==
    [isDict |-> TRUE, id |-> Absent, type |-> Absent, question |-> Absent,
     codeContext |-> Absent, options |-> Absent, correctAnswer |-> Absent,
     answer |-> Absent, shortAnswer |-> Absent, expectedAnswer |-> Absent,
     explanation |-> Absent]
NotADict == [EmptyDict EXCEPT !.isDict = FALSE]

Normalized(q) == [status |-> "ok", q |-> q]
Skipped == [status |-> "skip", q |-> EmptyDict]
Raised == [status |-> "raise", q |-> EmptyDict]

\* lines 48-51: the resolved type
ResolveType(raw) ==
    LET given == IF raw.type.tag = "absent" THEN <<>> ELSE PyStr(raw.type)
        q_type == Lower(Strip(given))
    IN  TypeAliases(IF q_type = <<>>
                    THEN (IF Truthy(raw.options) THEN s_multiple ELSE s_short)
                    ELSE q_type)

\* lines 60-65
NormalizeCodeContext(v) ==
    IF IsNone(v) THEN v
    ELSE LET code_context == PyStr(v)
         IN  StrV(IF Len(code_context) > MaxCodeContextLength
                  THEN SubSeq(code_context, 1, MaxCodeContextLength) \o s_ellipsis
                  ELSE code_context)

\* lines 68-73: str(...).strip() of a field that is not None
NormalizeText(v) == IF IsNone(v) THEN v ELSE StrV(Strip(PyStr(v)))

\* lines 82-90: the first max_options non-empty trimmed option texts
RECURSIVE CleanOptionsFrom(_, _)
CleanOptionsFrom(options, cleaned_options) ==
    IF Len(options) = 0 THEN cleaned_options
    ELSE LET option == Head(options)
         IN  IF IsNone(option) THEN CleanOptionsFrom(Tail(options), cleaned_options)
             ELSE LET txt == Strip(PyStr(option))
                      next == IF txt # <<>> THEN Append(cleaned_options, txt)
                                            ELSE cleaned_options
                  IN  IF Len(next) >= MaxOptions THEN next
                      ELSE CleanOptionsFrom(Tail(options), next)

CleanOptionsUncapped(options) ==
    LET kept == SelectSeq(options, LAMBDA o : ~IsNone(o) /\ Strip(PyStr(o)) # <<>>)
    IN  [i \in 1..Len(kept) |-> Strip(PyStr(kept[i]))]
CleanOptions(options) == CleanOptionsFrom(options, <<>>)

\* lines 98-103: the raw answer of a 'multiple' question
RawCorrectOrFirst(n) ==
    IF n.correctAnswer.tag # "absent" THEN n.correctAnswer ELSE IntV(0)
RawCorrect(n) ==
    LET correct == IF n.correctAnswer.tag # "absent" THEN n.correctAnswer
                   ELSE IF IsNone(n.answer) THEN None ELSE n.answer
    IN  IF IsNone(correct) /\ IsStr(n.explanation)
           /\ Contains(n.explanation.s, s_answer_marker)
        THEN StrV(FirstLine(Strip(AfterFirst(n.explanation.s, s_answer_marker))))
        ELSE IF IsNone(correct) THEN None ELSE correct

\* int(s): the value, or ValueError
IntOf(s) ==
    IF IntParses(s) THEN [raised |-> FALSE, v |-> IntV(ToInt(s))]
    ELSE [raised |-> TRUE, v |-> None]

\* lines 110-113: next(i for i, opt in enumerate(cleaned_options) if ...)
FirstMatch(stripped, cleaned_options) ==
    {i \in 1..Len(cleaned_options) :
        /\ Lower(stripped) = Lower(cleaned_options[i])
        /\ \A j \in 1..(i - 1) : Lower(stripped) # Lower(cleaned_options[j])}

\* lines 114-117: the "option N" form; the digits are used as they are
OptionPattern(stripped, digits) ==
    IF StartsWith(stripped, s_option) /\ digits # <<>> THEN IntOf(digits)
    ELSE [raised |-> FALSE, v |-> None]

\* lines 107-118, for the stripped answer and the options it matches
ResolveStripped(stripped, matches) ==
    IF IsDigit(stripped) THEN IntOf(stripped)
    ELSE IF matches # {}
    THEN [raised |-> FALSE, v |-> IntV((CHOOSE i \in matches : TRUE) - 1)]
    ELSE OptionPattern(stripped, DigitsOf(stripped))

\* lines 105-118: a string answer -> [raised, v], v an IntV or None
ResolveStringAnswer(correct, cleaned_options) ==
    ResolveStripped(Strip(correct), FirstMatch(Strip(correct), cleaned_options))

\* lines 105-120
ResolveCorrect(correct, cleaned_options) ==
    CASE correct.tag = "str" -> ResolveStringAnswer(correct.s, cleaned_options)
      [] correct.tag = "bool" -> [raised |-> FALSE, v |-> IntV(correct.n)]
      [] OTHER -> [raised |-> FALSE, v |-> correct]

\* lines 126-128
AnswerInRangeAny(correct, cleaned_options) == TRUE
AnswerInRange(correct, cleaned_options) ==
    ~(correct < 0 \/ correct >= Len(cleaned_options))

\* lines 122-130, for the resolved answer
CheckCorrect(n, cleaned_options, resolved) ==
    IF resolved.raised THEN Raised
    ELSE IF ~IsInt(resolved.v) THEN Skipped
    ELSE IF ~AnswerInRange(resolved.v.n, cleaned_options) THEN Skipped
    ELSE Normalized(
            [n EXCEPT
                !.options = ListV([i \in 1..Len(cleaned_options) |->
                                        StrV(cleaned_options[i])]),
                !.correctAnswer = IntV(resolved.v.n)])

\* lines 92-130, for the cleaned options
WithCleanedOptions(n, cleaned_options) ==
    IF Len(cleaned_options) < 2 THEN Skipped
    ELSE CheckCorrect(n, cleaned_options,
                      ResolveCorrect(RawCorrect(n), cleaned_options))

\* lines 76-79: normalized.get("options") or []
OptionsOrEmpty(v) == IF Truthy(v) THEN v ELSE ListV(<<>>)

\* lines 75-130
NormalizeMultiple(n) ==
    IF ~IsList(OptionsOrEmpty(n.options)) THEN Skipped
    ELSE WithCleanedOptions(n, CleanOptions(OptionsOrEmpty(n.options).l))

\* lines 142-151: answer_text after the loop over the candidates
\* lines 145-146: a non-empty list is unwrapped to its first element
Unwrap(c) == IF IsList(c) /\ Truthy(c) THEN c.l[1] ELSE c

RECURSIVE AnswerTextFrom(_, _)
AnswerTextFrom(candidates, answer_text) ==
    IF Len(candidates) = 0 THEN answer_text
    ELSE IF IsNone(Head(candidates)) \/ IsNone(Unwrap(Head(candidates)))
    THEN AnswerTextFrom(Tail(candidates), answer_text)
    ELSE IF Strip(PyStr(Unwrap(Head(candidates)))) # <<>>
    THEN Strip(PyStr(Unwrap(Head(candidates))))
    ELSE AnswerTextFrom(Tail(candidates), <<>>)

\* lines 132-161
\* lines 153-161, for the text the candidates gave
ShortAnswerOr(n, found) ==
    IF found # <<>> THEN Normalized([n EXCEPT !.correctAnswer = StrV(found)])
    ELSE IF IsStr(n.explanation) /\ Strip(FirstLine(n.explanation.s)) # <<>>
    THEN Normalized([n EXCEPT !.correctAnswer = StrV(Strip(FirstLine(n.explanation.s)))])
    ELSE Skipped

NormalizeShort(n) ==
    ShortAnswerOr(n, AnswerTextFrom(<<n.correctAnswer, n.answer, n.shortAnswer,
                                      n.expectedAnswer>>, <<>>))

\* lines 53-161, for the resolved type
NormalizeTyped(raw_data, q_type) ==
    IF q_type \notin {s_multiple, s_short} THEN Skipped
    ELSE IF q_type = s_multiple
    THEN NormalizeMultiple(
            [raw_data EXCEPT
                !.type = StrV(q_type),
                !.codeContext = NormalizeCodeContext(raw_data.codeContext),
                !.explanation = NormalizeText(raw_data.explanation),
                !.question = NormalizeText(raw_data.question)])
    ELSE NormalizeShort(
            [raw_data EXCEPT
                !.type = StrV(q_type),
                !.codeContext = NormalizeCodeContext(raw_data.codeContext),
                !.explanation = NormalizeText(raw_data.explanation),
                !.question = NormalizeText(raw_data.question)])

\* lines 36-163
normalize_question_data(raw_data) ==
    IF ~raw_data.isDict THEN Skipped
    ELSE NormalizeTyped(raw_data, ResolveType(raw_data))

-----------------------------------------------------------------------------
(* QuizQuestionResponse: pydantic validation of the dict, schemas/quiz.py *)

\* correctAnswer: Union[int, str] - an int or a str is kept, a bool or an
\* integral float becomes an int, anything else is a validation error
CorrectAnswerField(v) ==
    CASE v.tag \in {"int", "str"} -> v
      [] v.tag = "bool" -> IntV(v.n)
      [] v.tag = "float" /\ v.n % 10 = 0 -> IntV(v.n \div 10)
      [] OTHER -> Absent

OptionalStr(v) == IsNone(v) \/ IsStr(v)
OptionalStrList(v) ==
    IsNone(v) \/ (IsList(v) /\ \A i \in 1..Len(v.l) : IsStr(v.l[i]))

ValidationPasses(data) ==
    /\ IsStr(data.id)
    /\ IsStr(data.type) /\ data.type.s \in {s_multiple, s_short}
    /\ IsStr(data.question)
    /\ OptionalStr(data.codeContext)
    /\ OptionalStrList(data.options)
    /\ CorrectAnswerField(data.correctAnswer) # Absent
    /\ OptionalStr(data.explanation)

OrNone(v) == IF IsNone(v) THEN None ELSE v

\* the validated question: only the declared fields are kept
QuizQuestionResponse(data) ==
    [id |-> data.id, type |-> data.type, question |-> data.question,
     codeContext |-> OrNone(data.codeContext), options |-> OrNone(data.options),
     correctAnswer |-> CorrectAnswerField(data.correctAnswer),
     explanation |-> OrNone(data.explanation)]

-----------------------------------------------------------------------------
(* The per-item steps of the two quiz orchestration calls *)

\* f"q{idx + 1}" when the item has no "id" key
WithId(q_data, i) ==
    IF q_data.id.tag = "absent"
    THEN [q_data EXCEPT !.id = StrV(<<"q">> \o IntToStr(i + 1))]
    ELSE q_data

\* quiz_generator.py lines 332-345: one iteration of the loop;
\* status "ok" carries the validated question, anything else is a skip
Validated(normalized_data) ==
    IF normalized_data.status # "ok" THEN normalized_data
    ELSE IF ~ValidationPasses(normalized_data.q)
    THEN [status |-> "invalid", q |-> normalized_data.q]
    ELSE normalized_data

QuizItem(q_data, i) ==
    IF ~q_data.isDict THEN Raised
    ELSE Validated(normalize_question_data(WithId(q_data, i)))

\* learning_session_service.py lines 217-229: one iteration of the loop
\* lines 222-223: str(q_data.get("type", "multiple")).lower()
SessionTyped(q_data) ==
    [q_data EXCEPT !.type = StrV(Lower(IF q_data.type.tag = "absent" THEN s_multiple
                                       ELSE PyStr(q_data.type)))]

SessionItem(q_data, i) ==
    IF ~q_data.isDict THEN Raised
    ELSE Validated(Normalized(SessionTyped(WithId(q_data, i))))

NoResult ==
    [status |-> "none", questions |-> <<>>, requestedCount |-> 0,
     generatedCount |-> 0, error |-> ""]

Failure(why) == [NoResult EXCEPT !.status = "error", !.error = why]

\* QuizGenerationResponse with its metadata; totalCommits,
\* difficulty and generatedAt are inputs copied through and are left out
QuizGenerationResponse(qs, question_count) ==
    [status |-> "ok", questions |-> qs, requestedCount |-> question_count,
     generatedCount |-> Len(qs), error |-> ""]

-----------------------------------------------------------------------------
(* generate_quiz and generate_learning_session *)

Ops == {"generate_quiz", "generate_learning_session"}

\* what the call does with the value of generate_json before the loop:
\* quiz_generator.py lines 310-327, learning_session_service.py lines 202-216
BeforeLoop(resp) ==
    IF resp.raised THEN Failure("model_call_failed")
    ELSE IF ~resp.isDict THEN Failure("response_not_a_dict")
    ELSE IF ~resp.hasQuestions THEN Failure("no_questions_key")
    ELSE IF ~resp.iterable THEN Failure("questions_not_iterable")
    ELSE NoResult

\* quiz_generator.py lines 347-361
QuizFinishNoCheck(qs, question_count) == QuizGenerationResponse(qs, question_count)
QuizFinishPadded(qs, question_count) ==
    IF Len(qs) = 0 THEN Failure("no_valid_questions")
    ELSE [QuizGenerationResponse(qs, question_count) EXCEPT
            !.generatedCount = question_count]
QuizFinish(qs, question_count) ==
    IF Len(qs) = 0 THEN Failure("no_valid_questions")
    ELSE QuizGenerationResponse(qs, question_count)

\* learning_session_service.py lines 231-244
SessionFinish(qs, question_count) == QuizGenerationResponse(qs, question_count)

\* the call to generate_json and the checks that follow it
CallModel ==
    /\ pc = "start"
    /\ calls' = [calls EXCEPT !.provider = @ + 1]
    /\ result' = BeforeLoop(response)
    /\ pc' = IF result'.status = "error" THEN "done" ELSE "loop"
    /\ UNCHANGED <<op, request, response, idx, lastNorm, questions>>
    /\ UNCHANGED <<jsonVars, qualityVars>>
    /\ UNCHANGED <<concurrentVars, promptVars, endpointVars>>

\* one iteration of `for idx, q_data in enumerate(...)`
LoopItem ==
    /\ pc = "loop"
    /\ idx < Len(response.items)
    /\ lastNorm' = IF op = "generate_quiz" THEN QuizItem(response.items[idx + 1], idx)
                   ELSE SessionItem(response.items[idx + 1], idx)
    /\ questions' = IF lastNorm'.status = "ok"
                    THEN Append(questions, QuizQuestionResponse(lastNorm'.q))
                    ELSE questions
    /\ idx' = idx + 1
    /\ UNCHANGED <<commonVars, request, response, result>>
    /\ UNCHANGED <<jsonVars, qualityVars>>
    /\ UNCHANGED <<concurrentVars, promptVars, endpointVars>>

\* after the loop: the empty check (generate_quiz only) and the return
Finish ==
    /\ pc = "loop"
    /\ idx = Len(response.items)
    /\ result' = IF op = "generate_quiz"
                 THEN QuizFinish(questions, request.question_count)
                 ELSE SessionFinish(questions, request.question_count)
    /\ pc' = "done"
    /\ UNCHANGED <<op, calls, request, response, idx, lastNorm, questions>>
    /\ UNCHANGED <<jsonVars, qualityVars>>
    /\ UNCHANGED <<concurrentVars, promptVars, endpointVars>>

Next == CallModel \/ LoopItem \/ Finish

-----------------------------------------------------------------------------
(* The decoded responses the calls are run on *)

MaxQuestions == 3

o_A == StrV(<<"A">>)
o_B == StrV(<<"B">>)
o_C == StrV(<<"C">>)
o_D == StrV(<<"D">>)
o_E == StrV(<<"E">>)
OptABCD == <<o_A, o_B, o_C, o_D>>

OptionVals ==
    { Absent, None, StrV(<<>>), StrV(<<"a", "b", "c">>),
      ListV(<<>>), ListV(<<o_A>>), ListV(<<o_A, o_B>>), ListV(OptABCD),
      ListV(<<o_A, o_B, o_C, o_D, o_E>>),
      ListV(<<StrV(<<>>), o_A, o_B, o_C, o_D, o_E>>),
      ListV(<<o_A, None, StrV(<<>>), StrV(<<" ">>), StrV(<<" ", "b", " ">>)>>),
      ListV(<<o_A, None, StrV(<<" ">>)>>),
      ListV(<<StrV(<<"1">>), StrV(<<"2">>), StrV(<<"3">>), StrV(<<"0">>)>>),
      ListV(<<IntV(7), IntV(8)>>),
      ListV(<<StrV(<<"a">>), o_A, o_B>>) }

TypeVals ==
    { Absent, None, StrV(<<>>), StrV(<<" ">>),
      StrV(s_multiple), StrV(<<"M", "u", "l", "t", "i", "p", "l", "e">>),
      StrV(s_mcq), StrV(<<"M", "C", "Q">>), StrV(<<" ", "m", "c", "q", " ">>),
      StrV(s_objective), StrV(s_multiple_choice),
      StrV(s_short), StrV(<<"S", "H", "O", "R", "T">>),
      StrV(s_subjective), StrV(s_descriptive), StrV(s_open_ended),
      StrV(<<"O", "p", "e", "n", "_", "E", "n", "d", "e", "d">>),
      StrV(s_open_hyphen_ended), StrV(s_short_answer),
      StrV(<<"e", "s", "s", "a", "y">>), IntV(1) }

s_option3 == <<"o", "p", "t", "i", "o", "n", " ", "3">>

CorrectVals ==
    { Absent, None, IntV(-1), IntV(0), IntV(1), IntV(3), IntV(4),
      BoolV(TRUE), BoolV(FALSE), FloatV(15), FloatV(10), ListV(<<IntV(1)>>),
      StrV(<<"B">>), StrV(<<"b">>), StrV(<<" ", "B", " ">>), StrV(<<"E">>),
      StrV(<<"1">>), StrV(<<"4">>), StrV(<<" ", "2", " ">>), StrV(<<>>),
      StrV(s_option3), StrV(<<"o", "p", "t", "i", "o", "n", " ", "4">>),
      StrV(<<"o", "p", "t", "i", "o", "n", "1">>), StrV(s_option),
      StrV(<<"O", "p", "t", "i", "o", "n", " ", "3">>),
      StrV(<<"sup2">>), StrV(<<"o", "p", "t", "i", "o", "n", " ", "sup2">>) }

AnswerVals == { Absent, IntV(0), StrV(<<"A">>) }

ExplanationVals ==
    { Absent, None, StrV(<<"w", "h", "y">>),
      StrV(<<" ", "jeong", "dap", ":", " ", "B", " ", "\n", "w", "h", "y">>),
      StrV(<<"jeong", "dap", ":", "1">>) }

WellFormed ==
    [EmptyDict EXCEPT !.id = StrV(<<"q", "9">>), !.type = StrV(s_multiple),
                      !.question = StrV(<<"Q", "?">>), !.options = ListV(OptABCD),
                      !.correctAnswer = IntV(1), !.explanation = StrV(<<"w", "h", "y">>)]

WellFormedShort ==
    [WellFormed EXCEPT !.type = StrV(s_short), !.options = Absent,
                       !.correctAnswer = StrV(<<"O", "(", "n", ")">>)]

\* items that vary the type, the options and the kind of answer
TypeItems ==
    { [WellFormed EXCEPT !.type = t, !.options = o, !.correctAnswer = c] :
        t \in TypeVals, o \in OptionVals, c \in {IntV(1), StrV(<<"B">>), Absent} }

\* 'multiple' items that vary the options and where the answer comes from
AnswerItems ==
    { [WellFormed EXCEPT !.type = t, !.options = o, !.correctAnswer = c,
                         !.answer = a, !.explanation = e] :
        t \in {Absent, StrV(s_multiple)}, o \in OptionVals, c \in CorrectVals,
        a \in AnswerVals, e \in ExplanationVals }

\* 'short' items that vary the answer candidates
ShortItems ==
    { [WellFormedShort EXCEPT !.type = t, !.correctAnswer = c, !.answer = a,
                              !.shortAnswer = sa, !.expectedAnswer = ea,
                              !.explanation = e] :
        t \in {Absent, StrV(s_short)},
        c \in {Absent, None, StrV(<<>>), StrV(<<" ", "x", " ">>), IntV(0), ListV(<<>>)},
        a \in {Absent, StrV(<<"y">>), ListV(<<StrV(<<"y">>)>>)},
        sa \in {Absent, ListV(<<>>), ListV(<<None>>), ListV(<<StrV(<<"z">>)>>)},
        ea \in {Absent, StrV(<<"w">>)},
        e \in {Absent, StrV(<<>>), StrV(<<" ", "u", " ", "\n", "v">>)} }

\* items that vary the fields the schema checks
SchemaItems ==
    { [b EXCEPT !.id = i, !.question = q, !.codeContext = cc, !.explanation = e] :
        b \in {WellFormed, WellFormedShort},
        i \in {Absent, None, IntV(5), StrV(<<"q", "9">>)},
        q \in {Absent, None, StrV(<<" ", "Q", "?", " ">>)},
        cc \in {Absent, None, StrV(<<"x", "=", "1">>), IntV(3),
                StrV([k \in 1..(MaxCodeContextLength + 1) |-> "x"])},
        e \in {Absent, StrV(<<"w", "h", "y">>), IntV(2)} }

Items == TypeItems \cup AnswerItems \cup ShortItems \cup SchemaItems \cup {NotADict}

\* a 'multiple' item that has no "options" key
LacksOptions == [WellFormed EXCEPT !.options = Absent]

\* the items of the longer responses
BatchItems ==
    { WellFormed, WellFormedShort, NotADict,
      LacksOptions,
      [WellFormed EXCEPT !.id = Absent, !.correctAnswer = IntV(3)],
      [WellFormed EXCEPT !.id = Absent, !.correctAnswer = StrV(<<"D">>)],
      [WellFormed EXCEPT !.correctAnswer = Absent],
      [WellFormed EXCEPT !.type = StrV(<<"M", "C", "Q">>), !.correctAnswer = IntV(7)],
      [WellFormed EXCEPT !.type = StrV(<<"e", "s", "s", "a", "y">>)],
      [WellFormed EXCEPT !.id = Absent, !.options = ListV(<<o_A>>)],
      [WellFormedShort EXCEPT !.id = Absent, !.correctAnswer = Absent,
                              !.explanation = Absent] }

RECURSIVE SeqsUpTo(_, _)
SeqsUpTo(S, n) ==
    IF n = 0 THEN {<<>>}
    ELSE LET shorter == SeqsUpTo(S, n - 1)
         IN  shorter \cup {Append(q, x) : q \in {r \in shorter : Len(r) = n - 1}, x \in S}

Decoded(items) ==
    [raised |-> FALSE, isDict |-> TRUE, hasQuestions |-> TRUE, iterable |-> TRUE,
     items |-> items]

\* five items, one of them without options at position k
OneLacking(k, others) ==
    [i \in 1..5 |-> IF i = k THEN LacksOptions
                    ELSE others[IF i < k THEN i ELSE i - 1]]

FivePlusOne ==
    { OneLacking(k, others) :
        k \in 1..5,
        others \in [1..4 -> {WellFormed, WellFormedShort,
                             [WellFormed EXCEPT !.id = Absent, !.correctAnswer = IntV(3)]}] }

Responses ==
    { Decoded(<<i>>) : i \in Items }
    \cup { Decoded(q) : q \in SeqsUpTo(BatchItems, MaxQuestions) }
    \cup { Decoded(q) : q \in FivePlusOne }
    \cup { [Decoded(<<>>) EXCEPT !.raised = TRUE],
           [Decoded(<<>>) EXCEPT !.isDict = FALSE],
           [Decoded(<<>>) EXCEPT !.hasQuestions = FALSE],
           [Decoded(<<>>) EXCEPT !.iterable = FALSE] }

\* QuizGenerationRequest.questionCount: ge=3, le=10
QuestionCounts == {3, 5}

NoCalls == [provider |-> 0, decode |-> 0, repair |-> 0]

\* the variables of the calls that are not running
QuizIdle ==
    /\ request = [question_count |-> 0]
    /\ response = Decoded(<<>>)
    /\ idx = 0
    /\ lastNorm = [status |-> "none", q |-> EmptyDict]
    /\ questions = <<>>
    /\ result = NoResult

NoReply == [kind |-> "none", finish_reason |-> "", content |-> <<>>]
NoError == [type |-> "", message |-> <<>>, context_doc |-> <<>>]
NothingReturned == [status |-> "none", value |-> None, error |-> NoError]

JsonIdle ==
    /\ reply = NoReply
    /\ service = [is_configured |-> TRUE, repair_json |-> TRUE]
    /\ text = <<>>
    /\ cleaned = <<>>
    /\ repaired = <<>>
    /\ returned = NothingReturned

\* no concurrent calls are running
ConcurrentIdle ==
    /\ inputs = <<>>
    /\ frames = <<>>
    /\ singletons = {}

\* no prompt is being built
NoCommit == [files |-> <<>>]
PromptIdle ==
    /\ commit = NoCommit
    /\ commit_info = <<>>

\* no endpoint is running and the tables are empty
NoFrame == [pc |-> "idle"]
NoTables == [quizzes |-> <<>>, quiz_attempts |-> <<>>, reviews |-> <<>>, now |-> 0, serial |-> 0]
EndpointIdle ==
    /\ frame = NoFrame
    /\ db = NoTables
    /\ requests = <<>>

NoQuality == [readability |-> Absent, performance |-> Absent, security |-> Absent]
NoScores ==
    [status |-> "none", readability |-> 0, performance |-> 0, security |-> 0,
     error |-> ""]

QualityIdle ==
    /\ quality = NoQuality
    /\ scores = NoScores

Init ==
    /\ op \in Ops
    /\ pc = "start"
    /\ calls = NoCalls
    /\ ConcurrentIdle
    /\ PromptIdle
    /\ EndpointIdle
    /\ request \in [question_count : QuestionCounts]
    /\ response \in Responses
    /\ idx = 0
    /\ lastNorm = [status |-> "none", q |-> EmptyDict]
    /\ questions = <<>>
    /\ result = NoResult
    /\ JsonIdle
    /\ QualityIdle

Spec == Init /\ [][Next]_vars

-----------------------------------------------------------------------------
(* CodeAnalyzer._validate_quality_scores, code_analyzer.py lines 185-208 *)

MinScore == 0
MaxScore == 100
DefaultScore == 75

Converted(k) == [raised |-> "", v |-> k]
Throws(exception) == [raised |-> exception, v |-> 0]

\* int() of a float drops the fraction, towards zero
Truncated(tenths) ==
    IF tenths < 0 THEN 0 - ((0 - tenths) \div 10) ELSE tenths \div 10

\* int() of a str whose surrounding whitespace is gone: one optional sign,
\* then decimal digits only
IntOfSigned(sign, digits) ==
    IF IntParses(digits) THEN Converted(sign * ToInt(digits))
    ELSE Throws("ValueError")

IntOfText(stripped) ==
    IF Len(stripped) > 0 /\ stripped[1] = "-" THEN IntOfSigned(0 - 1, Tail(stripped))
    ELSE IF Len(stripped) > 0 /\ stripped[1] = "+" THEN IntOfSigned(1, Tail(stripped))
    ELSE IntOfSigned(1, stripped)

\* int(value)
PyInt(value) ==
    CASE value.tag \in {"int", "bool"} -> Converted(value.n)
      [] value.tag = "float" -> Converted(Truncated(value.n))
      [] value.tag = "nan" -> Throws("ValueError")
      [] value.tag = "inf" -> Throws("OverflowError")
      [] value.tag = "str" -> IntOfText(Strip(value.s))
      [] OTHER -> Throws("TypeError")

Min(a, b) == IF a < b THEN a ELSE b
Max(a, b) == IF a > b THEN a ELSE b

\* lines 197-202: the try block of clamp, given what int(value) did; only
\* ValueError and TypeError are caught
ClampConverted(val, min_val, max_val) ==
    IF val.raised = "" THEN Converted(Max(min_val, Min(max_val, val.v)))
    ELSE IF val.raised \in {"ValueError", "TypeError"} THEN Converted(DefaultScore)
    ELSE val

clamp(value) == ClampConverted(PyInt(value), MinScore, MaxScore)

\* quality.get(key, 75)
GetScore(quality_dict, key) ==
    IF quality_dict[key].tag = "absent" THEN IntV(DefaultScore) ELSE quality_dict[key]

\* schemas/analysis.py: CodeQuality, three ints with ge=0, le=100
CodeQuality(readability, performance, security) ==
    IF /\ readability \in MinScore..MaxScore
       /\ performance \in MinScore..MaxScore
       /\ security \in MinScore..MaxScore
    THEN [status |-> "ok", readability |-> readability,
          performance |-> performance, security |-> security, error |-> ""]
    ELSE [status |-> "raise", readability |-> 0, performance |-> 0,
          security |-> 0, error |-> "ValidationError"]

QualityRaises(exception) ==
    [status |-> "raise", readability |-> 0, performance |-> 0, security |-> 0,
     error |-> exception]

\* lines 204-208: the three arguments are evaluated in order, and the first
\* exception that clamp lets through ends the call
CodeQualityOf(readability, performance, security) ==
    IF readability.raised # "" THEN QualityRaises(readability.raised)
    ELSE IF performance.raised # "" THEN QualityRaises(performance.raised)
    ELSE IF security.raised # "" THEN QualityRaises(security.raised)
    ELSE CodeQuality(readability.v, performance.v, security.v)

validate_quality_scores(quality_dict) ==
    CodeQualityOf(clamp(GetScore(quality_dict, "readability")),
                  clamp(GetScore(quality_dict, "performance")),
                  clamp(GetScore(quality_dict, "security")))

ValidateQualityScores ==
    /\ op = "validate_quality_scores"
    /\ pc = "start"
    /\ scores' = validate_quality_scores(quality)
    /\ pc' = "done"
    /\ UNCHANGED <<op, calls, quality>>
    /\ UNCHANGED <<quizVars, jsonVars>>
    /\ UNCHANGED <<concurrentVars, promptVars, endpointVars>>

s_abc == <<"a", "b", "c">>

\* what the decoded "quality" object may hold under a key
ScoreVals ==
    {Absent, None, BoolV(TRUE), ListV(<<>>), NaN, Inf(1), Inf(0 - 1)}
    \cup {IntV(k) : k \in {0 - 5, 0 - 1, 0, 1, 75, 99, 100, 101, 150}}
    \cup {FloatV(k) : k \in {0 - 5, 855, 999, 1005}}
    \cup {StrV(s) : s \in {s_abc, <<>>, <<"8", "5">>, <<" ", "8", "5", "\n">>,
                           <<"8", "5", ".", "5">>, <<"-", "5">>, <<"+", "5">>,
                           <<"1", "5", "0">>, <<"sup2">>}}

QualityDicts ==
    [readability : ScoreVals, performance : ScoreVals, security : ScoreVals]

InitQuality ==
    /\ op = "validate_quality_scores"
    /\ pc = "start"
    /\ calls = NoCalls
    /\ ConcurrentIdle
    /\ PromptIdle
    /\ EndpointIdle
    /\ QuizIdle
    /\ JsonIdle
    /\ quality \in QualityDicts
    /\ scores = NoScores

NextQuality == ValidateQualityScores

SpecQuality == InitQuality /\ [][NextQuality]_vars

-----------------------------------------------------------------------------
(* GeminiService.generate_content and generate_json, gemini_service.py *)

\* "bt" stands for the one character U+0060, the backtick
s_fence == <<"bt", "bt", "bt">>

\* the five orchestration calls; each awaits generate_json once:
\* quiz_generator.py 310, learning_session_service.py 202, code_analyzer.py 240,
\* topic_extractor.py 150, review_generator.py 161
OrchestrationOps ==
    {"generate_quiz", "generate_learning_session", "analyze_commit",
     "extract_topics", "generate_review"}
\* generate_json runs on its own or inside an orchestration call
ModelCallers == {"generate_json"} \cup OrchestrationOps

s_questions == <<"q", "u", "e", "s", "t", "i", "o", "n", "s">>
s_topics == <<"t", "o", "p", "i", "c", "s">>
s_fence_json == s_fence \o <<"j", "s", "o", "n">>

\* the documents json.loads accepts, with the object each decodes to
JsonDocuments ==
    { [chars |-> <<"{", "}">>, value |-> DictV(<<>>)],
      [chars |-> <<"{", "\"", "a", "\"", ":", "1", "}">>,
       value |-> DictV(<< <<StrV(<<"a">>), IntV(1)>> >>)],
      [chars |-> <<"[", "1", "]">>, value |-> ListV(<<IntV(1)>>)],
      [chars |-> <<"{", "\"">> \o s_questions \o <<"\"", ":", "[", "]", "}">>,
       value |-> DictV(<< <<StrV(s_questions), ListV(<<>>)>> >>)],
      [chars |-> <<"{", "\"">> \o s_topics \o <<"\"", ":", "[", "]", "}">>,
       value |-> DictV(<< <<StrV(s_topics), ListV(<<>>)>> >>)],
      [chars |-> <<"\"">> \o s_fence \o <<"\"">>, value |-> StrV(s_fence)] }

Decoding(ok, value) == [ok |-> ok, value |-> value]

\* json.loads(s): JSON whitespace around the document is skipped, anything
\* else raises JSONDecodeError
JsonLoadsCore(core) ==
    IF \E d \in JsonDocuments : d.chars = core
    THEN Decoding(TRUE, (CHOOSE d \in JsonDocuments : d.chars = core).value)
    ELSE Decoding(FALSE, None)

JsonLoads(s) == JsonLoadsCore(StripOf(s, JsonWhitespace))

Error(type, message, context_doc) ==
    [type |-> type, message |-> message, context_doc |-> context_doc]
Raises(error) == [status |-> "error", value |-> None, error |-> error]
Returns(value) == [status |-> "ok", value |-> value, error |-> NoError]

\* lines 104-143 and the handlers of lines 151-156, for one provider reply:
\* the text handed back, or the exception that leaves generate_content.
\* finish_reason is logged (lines 128-135) and decides nothing
ContentOf(r) ==
    CASE r.kind = "timeout" ->
            Raises(Error("Exception", <<"network_error", "timeout">>, <<>>))
      [] r.kind = "status" ->
            Raises(Error("Exception", <<"call_error", "http_status">>, <<>>))
      [] r.kind = "no_choices" ->
            Raises(Error("Exception", <<"call_error", "empty_response">>, <<>>))
      [] r.kind = "ok" ->
            IF r.content = <<>>
            THEN Raises(Error("Exception", <<"call_error", "empty_message">>, <<>>))
            ELSE Returns(StrV(r.content))

\* lines 68-72: no request is made without an API key
NotConfigured == Raises(Error("ValueError", <<"api_key_missing">>, <<>>))

\* lines 97-102: the requests sent for one reply; client.post is awaited once,
\* outside any loop, and the AsyncClient is built without a retrying transport
PostsRetried(r) == IF r.kind = "timeout" THEN 2 ELSE 1
Posts(r) == 1

\* line 178: generate_json awaits generate_content outside its try block, so
\* an exception of generate_content leaves generate_json as it is
GenerateContent ==
    /\ op \in ModelCallers
    /\ pc = "start"
    /\ calls' = IF service.is_configured
                THEN [calls EXCEPT !.provider = @ + Posts(reply)] ELSE calls
    /\ returned' = IF ~service.is_configured THEN NotConfigured
                   ELSE IF ContentOf(reply).status = "error" THEN ContentOf(reply)
                   ELSE returned
    /\ text' = IF returned'.status = "error" THEN text ELSE reply.content
    /\ pc' = IF returned'.status = "error" THEN "done" ELSE "decode"
    /\ UNCHANGED <<op, reply, service, cleaned, repaired>>
    /\ UNCHANGED <<quizVars, qualityVars>>
    /\ UNCHANGED <<concurrentVars, promptVars, endpointVars>>

\* lines 185-188
StripOpenFenceShort(s) ==
    IF StartsWith(s, s_fence) THEN DropFirst(s, 3) ELSE s

StripOpenFence(s) ==
    IF StartsWith(s, s_fence_json) THEN DropFirst(s, 7)
    ELSE IF StartsWith(s, s_fence) THEN DropFirst(s, 3)
    ELSE s

\* lines 190-191
StripCloseFence(s) == IF EndsWith(s, s_fence) THEN DropLast(s, 3) ELSE s

\* lines 182-193
CleanedResponse(response_text) ==
    Strip(StripCloseFence(StripOpenFence(Strip(response_text))))

\* line 222: the ValueError holds the message of the JSONDecodeError only;
\* raised inside the except block, it has that JSONDecodeError as its
\* __context__, whose doc is cleaned_response
CannotParse(cleaned_response) ==
    Raises(Error("ValueError", <<"cannot_parse", "decode_error">>, cleaned_response))

\* lines 182-198: the strict decode
StrictDecode ==
    /\ op \in ModelCallers
    /\ pc = "decode"
    /\ cleaned' = CleanedResponse(text)
    /\ calls' = [calls EXCEPT !.decode = @ + 1]
    /\ returned' = IF JsonLoads(cleaned').ok THEN Returns(JsonLoads(cleaned').value)
                   ELSE returned
    /\ pc' = IF JsonLoads(cleaned').ok THEN "done" ELSE "except"
    /\ UNCHANGED <<op, reply, service, text, repaired>>
    /\ UNCHANGED <<quizVars, qualityVars>>
    /\ UNCHANGED <<concurrentVars, promptVars, endpointVars>>

\* what repair_json may give for a text: json_repair is a package outside
\* this repository, so its result is any of these, or an exception
RepairOutputs ==
    { <<>>, <<"{", "}">>, <<"{", "\"", "a", "\"", ":", "1", "}">>,
      <<"{", "\"", "a", "\"", ":", "1">> }

\* lines 207-213 with repair_json returning `output`
RepairReturns(output) ==
    /\ repaired' = output
    /\ calls' = [calls EXCEPT !.repair = @ + 1, !.decode = @ + 1]
    /\ returned' = IF JsonLoads(output).ok THEN Returns(JsonLoads(output).value)
                   ELSE CannotParse(cleaned)

\* lines 209, 214-218 with repair_json raising: the exception is logged
RepairRaises ==
    /\ repaired' = repaired
    /\ calls' = [calls EXCEPT !.repair = @ + 1]
    /\ returned' = CannotParse(cleaned)

\* lines 219-220: repair_json is None, the repair is skipped
RepairSkipped ==
    /\ repaired' = repaired
    /\ calls' = calls
    /\ returned' = CannotParse(cleaned)

\* lines 200-222: the handler of the JSONDecodeError
HandleDecodeError ==
    /\ op \in ModelCallers
    /\ pc = "except"
    /\ IF service.repair_json
       THEN RepairRaises \/ \E output \in RepairOutputs : RepairReturns(output)
       ELSE RepairSkipped
    /\ pc' = "done"
    /\ UNCHANGED <<op, reply, service, text, cleaned>>
    /\ UNCHANGED <<quizVars, qualityVars>>
    /\ UNCHANGED <<concurrentVars, promptVars, endpointVars>>

\* the texts a model may answer with: a body, fenced or not, with whitespace
Leads == {<<>>, <<"\n">>, <<"\f">>}
OpenFences == {<<>>, s_fence_json, s_fence, s_fence \o <<"J", "S", "O", "N">>}
Pads == {<<>>, <<"\n">>}
CloseFences == {<<>>, s_fence}
Bodies ==
    {d.chars : d \in JsonDocuments}
    \cup { <<>>,
           <<"{", "\"", "a", "\"", ":", "1">>,
           <<"{", "\"", "a", "\"", ":", "1", ",", "}">>,
           <<"{", "'", "a", "'", ":", "1", "}">>,
           <<"j", "s", "o", "n">> }

Contents ==
    { lead \o open \o pad1 \o body \o pad2 \o close \o trail :
        lead \in Leads, open \in OpenFences, pad1 \in Pads, body \in Bodies,
        pad2 \in Pads, close \in CloseFences, trail \in Pads }

Replies ==
    { [kind |-> k, finish_reason |-> "", content |-> <<>>] :
        k \in {"timeout", "status", "no_choices"} }
    \cup { [kind |-> "ok", finish_reason |-> f, content |-> c] :
             f \in {"stop", "length"}, c \in Contents }

InitJson ==
    /\ op = "generate_json"
    /\ pc = "start"
    /\ calls = NoCalls
    /\ ConcurrentIdle
    /\ PromptIdle
    /\ EndpointIdle
    /\ QuizIdle
    /\ QualityIdle
    /\ reply \in Replies
    /\ service \in [is_configured : BOOLEAN, repair_json : BOOLEAN]
    /\ text = <<>>
    /\ cleaned = <<>>
    /\ repaired = <<>>
    /\ returned = NothingReturned

NextJson == GenerateContent \/ StrictDecode \/ HandleDecodeError

SpecJson == InitJson /\ [][NextJson]_vars

-----------------------------------------------------------------------------
(* The orchestration calls around generate_json *)

s_summary == <<"s", "u", "m", "m", "a", "r", "y">>
s_quality == <<"q", "u", "a", "l", "i", "t", "y">>
s_suggestions == <<"s", "u", "g", "g", "e", "s", "t", "i", "o", "n", "s">>
s_potentialBugs == <<"p", "o", "t", "e", "n", "t", "i", "a", "l", "B", "u", "g", "s">>
s_title == <<"t", "i", "t", "l", "e">>
s_sections == <<"s", "e", "c", "t", "i", "o", "n", "s">>

\* the keys each call requires of the decoded response: quiz_generator.py 324,
\* learning_session_service.py 211, code_analyzer.py 252-255,
\* topic_extractor.py 159, review_generator.py 170-173
RequiredKeys(o) ==
    CASE o \in {"generate_quiz", "generate_learning_session"} -> {s_questions}
      [] o = "analyze_commit" ->
            {s_summary, s_quality, s_suggestions, s_potentialBugs}
      [] o = "extract_topics" -> {s_topics}
      [] o = "generate_review" -> {s_title, s_summary, s_sections}

\* key in response_data, for a decoded dict
HasKey(value, key) ==
    /\ value.tag = "dict"
    /\ \E i \in 1..Len(value.l) : value.l[i][1] = StrV(key)

\* response_data[key]
ValueUnder(value, key) ==
    value.l[CHOOSE i \in 1..Len(value.l) : value.l[i][1] = StrV(key)][2]

Completed == [NoResult EXCEPT !.status = "ok"]

\* what follows the key check when the list under the key is empty: the loop
\* body does not run; generate_quiz checks for an empty list, the others return
AfterKeys(o, question_count) ==
    CASE o = "generate_quiz" -> QuizFinish(<<>>, question_count)
      [] o = "generate_learning_session" -> SessionFinish(<<>>, question_count)
      [] OTHER -> Completed

\* the try block of the call around `await generate_json`: an exception of
\* generate_json, a response that is no dict and a missing key all reach the
\* handler `except Exception`, which raises ValueError; nothing calls
\* generate_json again
OrchestrationOutcome(o, ret, question_count) ==
    IF ret.status = "error" THEN Failure("model_call_failed")
    ELSE IF \E key \in RequiredKeys(o) : ~HasKey(ret.value, key)
    THEN Failure("missing_key")
    ELSE AfterKeys(o, question_count)

AfterGenerateJson ==
    /\ op \in OrchestrationOps
    /\ pc = "done"
    /\ result' = OrchestrationOutcome(op, returned, request.question_count)
    /\ pc' = "returned"
    /\ UNCHANGED <<op, calls, request, response, idx, lastNorm, questions>>
    /\ UNCHANGED <<jsonVars, qualityVars>>
    /\ UNCHANGED <<concurrentVars, promptVars, endpointVars>>

InitOrchestration ==
    /\ op \in OrchestrationOps
    /\ pc = "start"
    /\ calls = NoCalls
    /\ ConcurrentIdle
    /\ PromptIdle
    /\ EndpointIdle
    /\ request = [question_count |-> 5]
    /\ response = Decoded(<<>>)
    /\ idx = 0
    /\ lastNorm = [status |-> "none", q |-> EmptyDict]
    /\ questions = <<>>
    /\ result = NoResult
    /\ QualityIdle
    /\ reply \in Replies
    /\ service \in [is_configured : BOOLEAN, repair_json : BOOLEAN]
    /\ text = <<>>
    /\ cleaned = <<>>
    /\ repaired = <<>>
    /\ returned = NothingReturned

NextOrchestration ==
    GenerateContent \/ StrictDecode \/ HandleDecodeError \/ AfterGenerateJson

SpecOrchestration == InitOrchestration /\ [][NextOrchestration]_vars

-----------------------------------------------------------------------------
(* CodeAnalyzer.analyze_commit, code_analyzer.py lines 210-276 *)

\* lines 252-255
required_fields_short == {"summary", "quality", "suggestions"}
required_fields == {"summary", "quality", "suggestions", "potentialBugs"}

AnalysisFailure(why) ==
    [status |-> "error", summary |-> None, quality |-> NoScores,
     suggestions |-> None, potentialBugs |-> None, error |-> why]

NoAnalysis == [AnalysisFailure("") EXCEPT !.status = "none"]

\* response_data.get(key, []) of lines 264-265
GetOrEmptyList(v) == IF v.tag = "absent" THEN ListV(<<>>) ELSE v

\* schemas/analysis.py lines 17-22: summary a str, quality a CodeQuality,
\* suggestions and potentialBugs lists of str
AIAnalysisResponse(summary, code_quality, suggestions, potentialBugs) ==
    IF /\ IsStr(summary)
       /\ OptionalStrList(suggestions) /\ IsList(suggestions)
       /\ OptionalStrList(potentialBugs) /\ IsList(potentialBugs)
    THEN [status |-> "ok", summary |-> summary, quality |-> code_quality,
          suggestions |-> suggestions, potentialBugs |-> potentialBugs,
          error |-> ""]
    ELSE AnalysisFailure("ValidationError")

\* lines 240-255: the model call and the check of the required fields;
\* response_data.keys() of line 248 raises on a response that is no dict
AnalyzeChecked(resp, fields) ==
    IF resp.raised THEN AnalysisFailure("model_call_failed")
    ELSE IF ~resp.isDict THEN AnalysisFailure("response_not_a_dict")
    ELSE IF \E field \in fields : resp[field].tag = "absent"
    THEN AnalysisFailure("missing_field")
    ELSE NoAnalysis

AnalyzeCallModel ==
    /\ op = "analyze_commit"
    /\ pc = "start"
    /\ calls' = [calls EXCEPT !.provider = @ + 1]
    /\ result' = AnalyzeChecked(response, required_fields)
    /\ pc' = IF result'.status = "error" THEN "done" ELSE "quality"
    /\ UNCHANGED <<op, request, response, idx, lastNorm, questions>>
    /\ UNCHANGED <<jsonVars, qualityVars>>
    /\ UNCHANGED <<concurrentVars, promptVars, endpointVars>>

\* line 258: response_data["quality"] is handed to _validate_quality_scores,
\* whose quality.get raises AttributeError on anything but a dict
AnalyzeValidateQuality ==
    /\ op = "analyze_commit"
    /\ pc = "quality"
    /\ quality' = IF response.quality.tag = "dict" THEN response.scores ELSE quality
    /\ scores' = IF response.quality.tag = "dict"
                 THEN validate_quality_scores(response.scores)
                 ELSE QualityRaises(IF response.quality.tag = "absent"
                                    THEN "KeyError" ELSE "AttributeError")
    /\ result' = IF scores'.status = "raise" THEN AnalysisFailure(scores'.error)
                 ELSE result
    /\ pc' = IF scores'.status = "raise" THEN "done" ELSE "build"
    /\ UNCHANGED <<op, calls, request, response, idx, lastNorm, questions>>
    /\ UNCHANGED jsonVars
    /\ UNCHANGED <<concurrentVars, promptVars, endpointVars>>

\* lines 261-272
AnalyzeBuild ==
    /\ op = "analyze_commit"
    /\ pc = "build"
    /\ result' = AIAnalysisResponse(response.summary, scores,
                                    GetOrEmptyList(response.suggestions),
                                    GetOrEmptyList(response.potentialBugs))
    /\ pc' = "done"
    /\ UNCHANGED <<op, calls, request, response, idx, lastNorm, questions>>
    /\ UNCHANGED <<jsonVars, qualityVars>>
    /\ UNCHANGED <<concurrentVars, promptVars, endpointVars>>

s_ok == <<"o", "k">>

AnalysisScoreVals == {Absent, IntV(85), IntV(150), StrV(s_abc), Inf(1)}

DecodedAnalysis(summary, quality_value, quality_scores, suggestions, potentialBugs) ==
    [raised |-> FALSE, isDict |-> TRUE, summary |-> summary,
     quality |-> quality_value, scores |-> quality_scores,
     suggestions |-> suggestions, potentialBugs |-> potentialBugs]

AnalysisLists ==
    {Absent, None, ListV(<<>>), ListV(<<StrV(s_ok)>>), ListV(<<IntV(1)>>), StrV(s_ok)}

AnalysisResponses ==
    { DecodedAnalysis(su, DictV(<<>>), sc, sg, pb) :
        su \in {Absent, None, StrV(s_ok)},
        sc \in [readability : AnalysisScoreVals, performance : AnalysisScoreVals,
                security : AnalysisScoreVals],
        sg \in AnalysisLists, pb \in AnalysisLists }
    \cup { DecodedAnalysis(su, q, NoQuality, sg, pb) :
             su \in {Absent, None, StrV(s_ok)}, q \in {Absent, None, StrV(s_ok)},
             sg \in AnalysisLists, pb \in AnalysisLists }
    \cup { [DecodedAnalysis(Absent, Absent, NoQuality, Absent, Absent)
             EXCEPT !.raised = TRUE],
           [DecodedAnalysis(Absent, Absent, NoQuality, Absent, Absent)
             EXCEPT !.isDict = FALSE] }

InitAnalyze ==
    /\ op = "analyze_commit"
    /\ pc = "start"
    /\ calls = NoCalls
    /\ ConcurrentIdle
    /\ PromptIdle
    /\ EndpointIdle
    /\ request = [question_count |-> 0]
    /\ response \in AnalysisResponses
    /\ idx = 0
    /\ lastNorm = [status |-> "none", q |-> EmptyDict]
    /\ questions = <<>>
    /\ result = NoAnalysis
    /\ JsonIdle
    /\ QualityIdle

NextAnalyze == AnalyzeCallModel \/ AnalyzeValidateQuality \/ AnalyzeBuild

SpecAnalyze == InitAnalyze /\ [][NextAnalyze]_vars

-----------------------------------------------------------------------------
(* The /session endpoint over LearningSessionService.generate_learning_session,
   api/v1/endpoints/learning.py lines 221-326 *)

\* result['quiz'] of line 302: the service returns a QuizGenerationResponse, a
\* pydantic model, which has no __getitem__, so subscripting raises TypeError
Subscriptable(service_result) == FALSE

Http500(detail) == [Failure(detail) EXCEPT !.status = "http_500"]

\* lines 295-326: a ValueError of the service and the TypeError of the
\* subscript both reach `except Exception`, which answers HTTP 500
EndpointOutcome(service_result) ==
    IF service_result.status = "error" THEN Http500(service_result.error)
    ELSE IF ~Subscriptable(service_result) THEN Http500("TypeError")
    ELSE [service_result EXCEPT !.status = "http_200"]

EndpointRespond ==
    /\ op = "generate_learning_session"
    /\ pc = "done"
    /\ result' = EndpointOutcome(result)
    /\ pc' = "responded"
    /\ UNCHANGED <<op, calls, request, response, idx, lastNorm, questions>>
    /\ UNCHANGED <<jsonVars, qualityVars>>
    /\ UNCHANGED <<concurrentVars, promptVars, endpointVars>>

\* a decoded response with or without a sibling "review" key next to
\* "questions"; the service never looks the key up
SessionDecoded(hasQuestions, hasReview, items) ==
    [raised |-> FALSE, isDict |-> TRUE, hasQuestions |-> hasQuestions,
     iterable |-> TRUE, items |-> items, hasReview |-> hasReview]

SessionResponses ==
    { SessionDecoded(hq, hr, q) :
        hq \in BOOLEAN, hr \in BOOLEAN, q \in SeqsUpTo(BatchItems, 2) }
    \cup { [SessionDecoded(TRUE, TRUE, <<>>) EXCEPT !.raised = TRUE] }

InitSession ==
    /\ op = "generate_learning_session"
    /\ pc = "start"
    /\ calls = NoCalls
    /\ ConcurrentIdle
    /\ PromptIdle
    /\ EndpointIdle
    /\ request \in [question_count : QuestionCounts]
    /\ response \in SessionResponses
    /\ idx = 0
    /\ lastNorm = [status |-> "none", q |-> EmptyDict]
    /\ questions = <<>>
    /\ result = NoResult
    /\ JsonIdle
    /\ QualityIdle

NextSession == CallModel \/ LoopItem \/ Finish \/ EndpointRespond

SpecSession == InitSession /\ [][NextSession]_vars

-----------------------------------------------------------------------------
(* Concurrent orchestration calls over the module-level singletons:
   get_gemini_service, get_quiz_generator, get_learning_session_service *)

NumCalls == 2
Calls == 1..NumCalls

\* one iteration of either loop
ItemOutcome(o, q_data, i) ==
    IF o = "generate_quiz" THEN QuizItem(q_data, i) ELSE SessionItem(q_data, i)

Kept(outcome) ==
    IF outcome.status = "ok" THEN <<QuizQuestionResponse(outcome.q)>> ELSE <<>>

\* the list `questions` after the loop has run over items[i+1..]
RECURSIVE QuestionsFrom(_, _, _)
QuestionsFrom(o, items, i) ==
    IF i >= Len(items) THEN <<>>
    ELSE Kept(ItemOutcome(o, items[i + 1], i)) \o QuestionsFrom(o, items, i + 1)

FinishOf(o, qs, question_count) ==
    IF o = "generate_quiz" THEN QuizFinish(qs, question_count)
    ELSE SessionFinish(qs, question_count)

\* everything a call does once generate_json has resumed it: the key check,
\* the loop and the return; none of it awaits
CallOutcome(o, resp, question_count) ==
    IF BeforeLoop(resp).status = "error" THEN BeforeLoop(resp)
    ELSE FinishOf(o, QuestionsFrom(o, resp.items, 0), question_count)

\* learning.py lines 103 and 294: the service object each endpoint asks for
ServiceOf(o) ==
    IF o = "generate_quiz" THEN "quiz_generator" ELSE "learning_session_service"

\* get_quiz_generator / get_learning_session_service: the object is created
\* when the global is None, and its __init__ asks for the model client, which
\* is created the same way; the getters do not await
GetSingleton(created, name) == created \cup {name, "gemini_service"}

\* the arguments of a call are parameters of its own coroutine
BindArgumentsOnService(fr, i, question_count) ==
    [j \in DOMAIN fr |-> [fr[j] EXCEPT !.question_count = question_count]]
BindArguments(fr, i, question_count) ==
    [fr EXCEPT ![i].question_count = question_count]

\* the endpoint gets the service, the call builds its prompt and runs up to
\* `await client.post`, where it is suspended
Enter(i) ==
    /\ frames[i].pc = "start"
    /\ singletons' = GetSingleton(singletons, ServiceOf(inputs[i].op))
    /\ frames' = [BindArguments(frames, i, inputs[i].question_count)
                    EXCEPT ![i].pc = "awaiting"]
    /\ UNCHANGED <<inputs, commonVars, quizVars, jsonVars, qualityVars>>
    /\ UNCHANGED <<promptVars, endpointVars>>

\* the reply to the call's own request resumes it; it runs to its return
Resume(i) ==
    /\ frames[i].pc = "awaiting"
    /\ frames' = [frames EXCEPT
                    ![i].pc = "done",
                    ![i].result = CallOutcome(inputs[i].op, inputs[i].response,
                                              frames[i].question_count)]
    /\ UNCHANGED <<inputs, singletons, commonVars, quizVars, jsonVars, qualityVars>>
    /\ UNCHANGED <<promptVars, endpointVars>>

ConcurrentResponses ==
    { Decoded(<<>>), Decoded(<<WellFormed>>), Decoded(<<LacksOptions, WellFormedShort>>),
      Decoded(<<[WellFormed EXCEPT !.id = Absent, !.correctAnswer = IntV(3)]>>),
      [Decoded(<<>>) EXCEPT !.raised = TRUE],
      [Decoded(<<>>) EXCEPT !.hasQuestions = FALSE] }

InitConcurrent ==
    /\ op = "concurrent_calls"
    /\ pc = "running"
    /\ calls = NoCalls
    /\ PromptIdle
    /\ EndpointIdle
    /\ QuizIdle
    /\ JsonIdle
    /\ QualityIdle
    /\ inputs \in [Calls -> [op : Ops, question_count : QuestionCounts,
                             response : ConcurrentResponses]]
    /\ frames = [i \in Calls |-> [pc |-> "start", question_count |-> 0,
                                  result |-> NoResult]]
    /\ singletons = {}

NextConcurrent == \E i \in Calls : Enter(i) \/ Resume(i)

SpecConcurrent == InitConcurrent /\ [][NextConcurrent]_vars

-----------------------------------------------------------------------------
(* The prompt builders: which files of a commit are embedded, and how much
   of each patch *)

PromptBuilders ==
    {"_build_quiz_prompt", "_build_topic_extraction_prompt", "_build_topic_prompt",
     "_build_unified_prompt", "_build_analysis_prompt"}

\* self._max_patch_preview_length; the literal 800 of _build_analysis_prompt
MaxPatchPreviewLength == 1200
AnalysisPatchLength == 800

\* commit.files[:5]; commit.files[:10] in _build_analysis_prompt
MaxPromptFiles == 5
MaxAnalysisFiles == 10

\* "\n... (중략) ..."
s_omitted == <<"\n", ".", ".", ".", " ", "(", "jung", "ryak", ")", " ", ".", ".", ".">>

max_files(builder) ==
    IF builder = "_build_analysis_prompt" THEN MaxAnalysisFiles ELSE MaxPromptFiles

max_patch_preview_length(builder) ==
    IF builder = "_build_analysis_prompt" THEN AnalysisPatchLength
    ELSE MaxPatchPreviewLength

truncation_marker(builder) ==
    IF builder = "_build_analysis_prompt" THEN s_ellipsis ELSE s_omitted

\* s[:n]
Slice(s, n) == SubSeq(s, 1, Min(Len(s), n))

\* file.patch[:budget], and the marker when len(file.patch) > budget
PatchPreview(patch, budget, marker) ==
    Slice(patch, budget) \o (IF Len(patch) > budget THEN marker ELSE <<>>)

\* what the builder writes for one file: the name line and, `if file.patch`,
\* the Diff block
FileInfo(file, builder) ==
    [filename |-> file.filename,
     diff |-> IF Truthy(file.patch)
              THEN StrV(PatchPreview(file.patch.s, max_patch_preview_length(builder),
                                     truncation_marker(builder)))
              ELSE None]

\* the files the loop goes over
FilesEmbedded(builder, files) == Slice(files, max_files(builder))

\* one iteration of `for file in commit.files[:n]`
EmbedFile ==
    /\ op \in PromptBuilders /\ pc = "building"
    /\ Len(commit_info) < Len(FilesEmbedded(op, commit.files))
    /\ commit_info' =
          Append(commit_info,
                 FileInfo(FilesEmbedded(op, commit.files)[Len(commit_info) + 1], op))
    /\ UNCHANGED <<commonVars, commit>>
    /\ UNCHANGED <<quizVars, jsonVars, qualityVars, concurrentVars, endpointVars>>

\* the loop is over: the text goes into the prompt
FinishPrompt ==
    /\ op \in PromptBuilders /\ pc = "building"
    /\ Len(commit_info) = Len(FilesEmbedded(op, commit.files))
    /\ pc' = "built"
    /\ UNCHANGED <<op, calls, commit, commit_info>>
    /\ UNCHANGED <<quizVars, jsonVars, qualityVars, concurrentVars, endpointVars>>

\* commits of up to MaxFiles files
MaxFiles == 11

\* a patch of the given length
PatchText(n) == [i \in 1..n |-> DecimalDigits[(i % 10) + 1]]

\* patches around the two budgets, an empty patch and a missing one
PatchVals ==
    << StrV(PatchText(AnalysisPatchLength + 1)), None,
       StrV(PatchText(MaxPatchPreviewLength)), StrV(PatchText(AnalysisPatchLength)),
       StrV(PatchText(MaxPatchPreviewLength + 1)), StrV(<<>>),
       StrV(PatchText(3)) >>

CommitFiles(n, shift) ==
    [i \in 1..n |-> [filename |-> i,
                     patch |-> PatchVals[((i + shift) % Len(PatchVals)) + 1]]]

Commits ==
    { [files |-> CommitFiles(n, shift)] : n \in 0..MaxFiles, shift \in 1..Len(PatchVals) }

InitPrompt ==
    /\ op \in PromptBuilders
    /\ pc = "building"
    /\ calls = NoCalls
    /\ commit \in Commits
    /\ commit_info = <<>>
    /\ QuizIdle
    /\ JsonIdle
    /\ QualityIdle
    /\ ConcurrentIdle
    /\ EndpointIdle

NextPrompt == EmbedFile \/ FinishPrompt

SpecPrompt == InitPrompt /\ [][NextPrompt]_vars

-----------------------------------------------------------------------------
(* The quiz and session endpoints of learning.py: the commits are collected
   one by one, then the service builds the prompt and calls the model *)

LearningEndpoints == {"POST /quiz", "POST /session"}

\* s.split(sep, 1)[0] for a separator that occurs in s
BeforeFirst(s, sep) == SubSeq(s, 1, Find(s, sep) - 1)

Parsed(full_name, sha) == [ok |-> TRUE, status |-> 0, full_name |-> full_name, sha |-> sha]
HttpError(status_code) ==
    [ok |-> FALSE, status |-> status_code, full_name |-> <<>>, sha |-> <<>>]

\* lines 59-74: the repository of a numeric repo_part; int() of a digit that
\* is not decimal and the unpacking of a full_name without "/" raise
\* ValueError, which `except Exception` turns into 500
RepositoryOfId(repo_part, repo_data, sha) ==
    IF ~IntParses(repo_part) THEN HttpError(500)
    ELSE IF ~repo_data.found THEN HttpError(404)
    ELSE IF ~Truthy(repo_data.full_name) THEN HttpError(500)
    ELSE IF ~Contains(repo_data.full_name.s, <<"/">>) THEN HttpError(500)
    ELSE Parsed(repo_data.full_name.s, sha)

\* lines 53-86 (250-280 in the session endpoint)
ParseRepoPart(repo_part, sha, repo_data) ==
    IF Contains(repo_part, <<"/">>) THEN Parsed(repo_part, sha)
    ELSE IF IsDigit(repo_part) THEN RepositoryOfId(repo_part, repo_data, sha)
    ELSE HttpError(400)

ParseIdentifier(commit_identifier, repo_data) ==
    IF ~Contains(commit_identifier, <<":">>) THEN HttpError(400)
    ELSE ParseRepoPart(BeforeFirst(commit_identifier, <<":">>),
                       AfterFirst(commit_identifier, <<":">>), repo_data)

\* lines 88-93: the iteration after the identifier is parsed; any failure
\* leaves the handler with its HTTP status
AfterIterationSkipping(locals, parsed, fetched) ==
    IF ~parsed.ok \/ ~fetched.ok THEN [locals EXCEPT !.i = @ + 1]
    ELSE [locals EXCEPT
            !.i = @ + 1,
            !.events = Append(@, "fetch"),
            !.commits_details = Append(@, [full_name |-> parsed.full_name,
                                           sha |-> parsed.sha])]
AfterIteration(locals, parsed, fetched) ==
    IF ~parsed.ok THEN [locals EXCEPT !.status = parsed.status]
    ELSE IF ~fetched.ok
    THEN [locals EXCEPT !.events = Append(@, "fetch"), !.status = fetched.status]
    ELSE [locals EXCEPT
            !.i = @ + 1,
            !.events = Append(@, "fetch"),
            !.commits_details = Append(@, [full_name |-> parsed.full_name,
                                           sha |-> parsed.sha])]

\* what get_repository_by_id may return: None, a dict without full_name, a
\* dict with one
RepoLookups ==
    { [found |-> FALSE, full_name |-> None], [found |-> TRUE, full_name |-> None],
      [found |-> TRUE, full_name |-> StrV(<<"o", "/", "r">>)],
      [found |-> TRUE, full_name |-> StrV(<<"o", "r">>)] }

\* what get_commit_with_diff may do, repo.py lines 513-576: return the
\* commit, or raise 504 (timeout), the upstream status, or 500
FetchOutcomes ==
    { [ok |-> TRUE, status |-> 200], [ok |-> FALSE, status |-> 504],
      [ok |-> FALSE, status |-> 404], [ok |-> FALSE, status |-> 500] }

\* one iteration of `for commit_identifier in request.commitShas`
FetchCommit ==
    /\ op \in LearningEndpoints /\ pc = "collecting"
    /\ frame.i < Len(frame.commitShas)
    /\ \E repo_data \in RepoLookups, fetched \in FetchOutcomes :
          frame' = AfterIteration(frame,
                                  ParseIdentifier(frame.commitShas[frame.i + 1], repo_data),
                                  fetched)
    /\ pc' = IF frame'.status = 0 THEN "collecting" ELSE "responded"
    /\ UNCHANGED <<op, calls, db, requests>>
    /\ UNCHANGED <<quizVars, jsonVars, qualityVars, concurrentVars, promptVars>>

\* lines 95-108: the empty check, then the service, which builds the prompt
\* and awaits generate_json
AfterCollecting(locals) ==
    IF locals.commits_details = <<>> THEN [locals EXCEPT !.status = 400]
    ELSE [locals EXCEPT !.events = @ \o <<"prompt", "model">>]

StartService ==
    /\ op \in LearningEndpoints /\ pc = "collecting"
    /\ frame.i = Len(frame.commitShas)
    /\ frame' = AfterCollecting(frame)
    /\ calls' = IF frame'.status = 0 THEN [calls EXCEPT !.provider = @ + 1] ELSE calls
    /\ pc' = IF frame'.status = 0 THEN "awaiting" ELSE "responded"
    /\ UNCHANGED <<op, db, requests>>
    /\ UNCHANGED <<quizVars, jsonVars, qualityVars, concurrentVars, promptVars>>

\* lines 104-126 and 295-326: the answer of the endpoint once the service
\* returned or raised
ResponseStatus(endpoint, service_ok) ==
    IF ~service_ok THEN 500
    ELSE IF endpoint = "POST /session" /\ ~Subscriptable(service_ok) THEN 500
    ELSE 200

ServiceReturns ==
    /\ op \in LearningEndpoints /\ pc = "awaiting"
    /\ \E service_ok \in BOOLEAN :
          frame' = [frame EXCEPT !.status = ResponseStatus(op, service_ok)]
    /\ pc' = "responded"
    /\ UNCHANGED <<op, calls, db, requests>>
    /\ UNCHANGED <<quizVars, jsonVars, qualityVars, concurrentVars, promptVars>>

\* requests of up to MaxCommits identifiers
MaxCommits == 3

CommitIdentifiers ==
    { <<"o", "/", "r", ":", "a", "b">>, <<"7", ":", "c">>, <<"a", "b", "c">>,
      <<"r", ":", "a">>, <<":", "a">>, <<"sup2", ":", "a">>, <<"o", "/", "r", ":", "a", ":", "b">> }

InitPipeline ==
    /\ op \in LearningEndpoints
    /\ pc = "collecting"
    /\ calls = NoCalls
    /\ frame \in { [commitShas |-> ids, i |-> 0, commits_details |-> <<>>,
                    events |-> <<>>, status |-> 0] :
                     ids \in SeqsUpTo(CommitIdentifiers, MaxCommits) \ {<<>>} }
    /\ db = NoTables
    /\ requests = <<>>
    /\ QuizIdle
    /\ JsonIdle
    /\ QualityIdle
    /\ ConcurrentIdle
    /\ PromptIdle

NextPipeline == FetchCommit \/ StartService \/ ServiceReturns

SpecPipeline == InitPipeline /\ [][NextPipeline]_vars

-----------------------------------------------------------------------------
(* Grading an answer, and the partition of _build_review_prompt *)

\* the number a numeric value stands for, in tenths
Tenths(v) == IF v.tag = "float" THEN v.n ELSE 10 * v.n

IsNumber(v) == v.tag \in {"int", "bool", "float"}

\* a == b
PyEquals(a, b) ==
    CASE IsNone(a) \/ IsNone(b) -> IsNone(a) /\ IsNone(b)
      [] IsNumber(a) /\ IsNumber(b) -> Tenths(a) = Tenths(b)
      [] IsStr(a) /\ IsStr(b) -> a.s = b.s
      [] IsList(a) /\ IsList(b) -> a.l = b.l
      [] OTHER -> FALSE

\* user_answer == correct_answer or str(user_answer) == str(correct_answer)
is_correct_by_value(user_answer, correct_answer) == PyEquals(user_answer, correct_answer)
is_correct(user_answer, correct_answer) ==
    PyEquals(user_answer, correct_answer) \/ PyStr(user_answer) = PyStr(correct_answer)

\* user_answers.get(q_id): the keys of the dict are strings
GetAnswer(user_answers, q_id) ==
    IF IsStr(q_id) /\ q_id.s \in DOMAIN user_answers THEN OrNone(user_answers[q_id.s])
    ELSE None

\* review_generator.py lines 36-56: one question goes to one of the lists
QSummary(question, user_answers) ==
    [id |-> OrNone(question.id),
     user_answer |-> GetAnswer(user_answers, question.id),
     correct_answer |-> OrNone(question.correctAnswer),
     code_context |-> OrNone(question.codeContext)]

RECURSIVE Select(_, _, _)
Select(qs, user_answers, wanted) ==
    IF Len(qs) = 0 THEN <<>>
    ELSE LET q_summary == QSummary(Head(qs), user_answers)
         IN  (IF is_correct(q_summary.user_answer, q_summary.correct_answer) = wanted
              THEN <<q_summary>> ELSE <<>>)
             \o Select(Tail(qs), user_answers, wanted)

\* lines 111-127: q['code_context'][:200] raises TypeError for a truthy
\* value that cannot be sliced
FormatRaises(q_summaries) ==
    \E k \in 1..Len(q_summaries) :
        /\ Truthy(q_summaries[k].code_context)
        /\ ~IsStr(q_summaries[k].code_context) /\ ~IsList(q_summaries[k].code_context)

\* lines 61-109: the counts the prompt states, unless formatting raised
ReviewPrompt(correct_questions, wrong_questions) ==
    IF FormatRaises(correct_questions) \/ FormatRaises(wrong_questions)
    THEN [raised |-> TRUE, correct |-> 0, wrong |-> 0]
    ELSE [raised |-> FALSE, correct |-> Len(correct_questions),
          wrong |-> Len(wrong_questions)]

BuildReviewPrompt ==
    /\ op = "_build_review_prompt" /\ pc = "start"
    /\ frame' = [frame EXCEPT
                   !.correct_questions = Select(frame.questions, frame.user_answers, TRUE),
                   !.wrong_questions = Select(frame.questions, frame.user_answers, FALSE),
                   !.prompt = ReviewPrompt(Select(frame.questions, frame.user_answers, TRUE),
                                           Select(frame.questions, frame.user_answers, FALSE))]
    /\ pc' = "built"
    /\ UNCHANGED <<op, calls, db, requests>>
    /\ UNCHANGED <<quizVars, jsonVars, qualityVars, concurrentVars, promptVars>>

\* stored questions: id, correctAnswer and codeContext vary
StoredQuestion(id, correctAnswer, codeContext) ==
    [id |-> id, correctAnswer |-> correctAnswer, codeContext |-> codeContext]

s_q1 == <<"q", "1">>
s_q2 == <<"q", "2">>

StoredQuestions ==
    { StoredQuestion(StrV(s_q1), IntV(1), Absent),
      StoredQuestion(StrV(s_q1), StrV(<<"1">>), StrV(<<"x">>)),
      StoredQuestion(StrV(s_q1), BoolV(TRUE), Absent),
      StoredQuestion(StrV(s_q2), FloatV(10), Absent),
      StoredQuestion(StrV(s_q2), StrV(<<"a">>), IntV(3)),
      StoredQuestion(StrV(s_q2), Absent, Absent),
      StoredQuestion(StrV(s_q2), None, Absent),
      StoredQuestion(StrV(s_q2), StrV(s_None), Absent),
      StoredQuestion(Absent, IntV(1), Absent),
      StoredQuestion(IntV(1), StrV(<<"a">>), Absent) }

UserAnswerVals == {Absent, None, IntV(1), StrV(<<"1">>), StrV(<<"a">>), IntV(0)}

UserAnswers == [{s_q1, s_q2} -> UserAnswerVals]

\* quizzes of up to MaxStored questions
MaxStored == 2

InitReview ==
    /\ op = "_build_review_prompt"
    /\ pc = "start"
    /\ calls = NoCalls
    /\ frame \in { [questions |-> qs, user_answers |-> ua, correct_questions |-> <<>>,
                    wrong_questions |-> <<>>,
                    prompt |-> [raised |-> FALSE, correct |-> 0, wrong |-> 0]] :
                     qs \in SeqsUpTo(StoredQuestions, MaxStored), ua \in UserAnswers }
    /\ db = NoTables
    /\ requests = <<>>
    /\ QuizIdle
    /\ JsonIdle
    /\ QualityIdle
    /\ ConcurrentIdle
    /\ PromptIdle

NextReview == BuildReviewPrompt

SpecReview == InitReview /\ [][NextReview]_vars

-----------------------------------------------------------------------------
(* The quiz and review endpoints over the tables quizzes, quiz_attempts, reviews *)

\* a nullable column: NULL or one value
Null == <<>>
Val(x) == <<x>>

\* lines 207-221 of my_quiz.py: the two counters after the loop
\* the counters after one more question
GradedOne(counters, question, user_answers) ==
    IF is_correct(GetAnswer(user_answers, question.id), OrNone(question.correctAnswer))
    THEN [counters EXCEPT !.correct_answers = @ + 1]
    ELSE [counters EXCEPT !.wrong_answers = @ + 1]

RECURSIVE GradedFrom(_, _, _)
GradedFrom(counters, qs, user_answers) ==
    IF Len(qs) = 0 THEN counters
    ELSE GradedFrom(GradedOne(counters, Head(qs), user_answers), Tail(qs), user_answers)

GradedCorrectOnly(qs, user_answers) ==
    [GradedFrom([correct_answers |-> 0, wrong_answers |-> 0], qs, user_answers)
        EXCEPT !.wrong_answers = 0]
Graded(qs, user_answers) ==
    GradedFrom([correct_answers |-> 0, wrong_answers |-> 0], qs, user_answers)

\* line 234: (correct_answers / total_questions * 100) if total_questions > 0
\* else 0, kept in hundredths of a point
Score(correct_answers, total_questions) ==
    IF total_questions > 0 THEN (correct_answers * 10000) \div total_questions ELSE 0

\* line 235: score >= 60
IsPassed(score) == score >= 6000

\* SELECT ... WHERE id = :id AND user_id = :user
RowsOfAnyUser(table, id, user_id) ==
    SelectSeq(table, LAMBDA row : row.id = id)
RowsOf(table, id, user_id) ==
    SelectSeq(table, LAMBDA row : row.id = id /\ row.user_id = user_id)
RowsNamed(table, id) == SelectSeq(table, LAMBDA row : row.id = id)
OwnedBy(table, user_id) == SelectSeq(table, LAMBDA row : row.user_id = user_id)
Without(table, id) == SelectSeq(table, LAMBDA row : row.id # id)

\* SELECT ... FROM quiz_attempts WHERE quiz_id = :id ORDER BY created_at DESC LIMIT 1
AttemptsOf(quiz_attempts, quiz_id) ==
    SelectSeq(quiz_attempts, LAMBDA a : a.quiz_id = quiz_id)
LatestAttempt(quiz_attempts, quiz_id) ==
    LET mine == AttemptsOf(quiz_attempts, quiz_id)
    IN  SelectSeq(mine, LAMBDA a : \A k \in 1..Len(mine) : mine[k].created_at <= a.created_at)

\* SELECT ... FROM reviews WHERE quiz_id = :id AND user_id = :user
ReviewsOf(reviews, quiz_id, user_id) ==
    SelectSeq(reviews, LAMBDA r : r.quiz_id = quiz_id /\ r.user_id = user_id)

\* the response of a finished request
Finished(req, status_code, body) ==
    [pc |-> "done", user |-> req.user, op |-> req.op, id |-> req.id,
     began |-> req.began, status |-> status_code, body |-> body]

NoBody == [rows |-> <<>>]

\* a request arrives: the clock of the database advances, the session begins
Arrives(user, operation, id, input) ==
    [user |-> user, op |-> operation, id |-> id, input |-> input, began |-> db.now + 1]

\* the worker processes: each has its own engine with a pool of one
\* connection (database.py lines 29-35), so each serves one transaction at a
\* time and transactions of different workers overlap
Workers == {"w1", "w2"}

NumRequests == 3

CanArrive == db.now < NumRequests /\ Len(requests) < Cardinality(Workers)

Started == [db EXCEPT !.now = @ + 1]

RemoveAt(s, k) == SubSeq(s, 1, k - 1) \o SubSeq(s, k + 1, Len(s))

EndpointFrame ==
    /\ UNCHANGED <<op, pc>>
    /\ UNCHANGED <<quizVars, jsonVars, qualityVars, concurrentVars, promptVars>>

\* the request finishes in the step in which it arrived
Answered(req, status_code, body, tables) ==
    /\ frame' = Finished(req, status_code, body)
    /\ db' = tables
    /\ UNCHANGED <<requests, calls>>
    /\ EndpointFrame

\* the in-flight request k finishes
Leaves(k, status_code, body, tables) ==
    /\ frame' = Finished(requests[k].request, status_code, body)
    /\ db' = tables
    /\ requests' = RemoveAt(requests, k)
    /\ UNCHANGED calls
    /\ EndpointFrame

----
\* submit_quiz, lines 237-261: the attributes set on the loaded Quiz
SubmittedAlwaysStamped(quiz, graded, input, utcnow) ==
    [quiz EXCEPT !.is_completed = TRUE,
                 !.completed_at = Val(utcnow),
                 !.score = Val(Score(graded.correct_answers, Len(quiz.questions))),
                 !.correct_answers = Val(graded.correct_answers),
                 !.wrong_answers = Val(graded.wrong_answers),
                 !.duration_seconds = Val(input.duration_seconds)]
Submitted(quiz, graded, input, utcnow) ==
    [quiz EXCEPT !.is_completed = TRUE,
                 !.completed_at = IF quiz.is_completed THEN @ ELSE Val(utcnow),
                 !.score = Val(Score(graded.correct_answers, Len(quiz.questions))),
                 !.correct_answers = Val(graded.correct_answers),
                 !.wrong_answers = Val(graded.wrong_answers),
                 !.duration_seconds = Val(input.duration_seconds)]

\* lines 251-261: the QuizAttempt; created_at is the server default now(),
\* the time at which the transaction began
NewAttempt(quiz, graded, input, began) ==
    [quiz_id |-> quiz.id,
     score |-> Score(graded.correct_answers, Len(quiz.questions)),
     correct_answers |-> graded.correct_answers,
     wrong_answers |-> graded.wrong_answers,
     answers |-> input.user_answers,
     duration_seconds |-> input.duration_seconds,
     created_at |-> began]

\* lines 281-288
SubmitResponse(quiz, graded) ==
    [quiz_id |-> quiz.id,
     score |-> Score(graded.correct_answers, Len(quiz.questions)),
     correct_answers |-> graded.correct_answers,
     wrong_answers |-> graded.wrong_answers,
     is_passed |-> IsPassed(Score(graded.correct_answers, Len(quiz.questions)))]

\* the UPDATE the unit of work emits: the columns whose value differs from
\* the loaded one
Flushed(current, loaded, changed) ==
    [col \in DOMAIN current |->
        IF changed[col] # loaded[col] THEN changed[col] ELSE current[col]]

UpdateRow(table, loaded, changed) ==
    [k \in 1..Len(table) |->
        IF table[k].id = loaded.id THEN Flushed(table[k], loaded, changed) ELSE table[k]]

\* lines 191-261: the quiz is selected and graded, the session holds the
\* changes
SubmitLoads(user, id, input) ==
    /\ op = "endpoints" /\ CanArrive
    /\ LET req == Arrives(user, "submit_quiz", id, input)
           found == RowsOf(db.quizzes, id, user)
       IN  IF Len(found) = 0
           THEN Answered(req, 404, NoBody, Started)
           ELSE /\ requests' = Append(requests,
                     [request |-> req, quiz |-> found[1],
                      graded |-> Graded(found[1].questions, input.user_answers)])
                /\ db' = Started
                /\ UNCHANGED <<frame, calls>>
                /\ EndpointFrame

\* lines 263-288: commit; the UPDATE matches no row when the quiz was
\* deleted meanwhile, and the handler answers 500 after a rollback
SubmitCommits(k) ==
    /\ op = "endpoints" /\ k \in 1..Len(requests)
    /\ requests[k].request.op = "submit_quiz"
    /\ LET r == requests[k]
       IN  IF Len(RowsNamed(db.quizzes, r.quiz.id)) = 0
           THEN Leaves(k, 500, NoBody, db)
           ELSE Leaves(k, 200, SubmitResponse(r.quiz, r.graded),
                    [db EXCEPT
                       !.quizzes = UpdateRow(@, r.quiz,
                                      Submitted(r.quiz, r.graded, r.request.input, r.request.began)),
                       !.quiz_attempts = Append(@, NewAttempt(r.quiz, r.graded, r.request.input,
                                                               r.request.began))])

\* lines 292-298: the commit raises, the session is rolled back
SubmitFails(k) ==
    /\ op = "endpoints" /\ k \in 1..Len(requests)
    /\ requests[k].request.op = "submit_quiz"
    /\ Leaves(k, 500, NoBody, db)

----
\* delete_quiz, lines 313-328: the ORM cascades to the attempts and reviews
DeleteQuiz(user, id) ==
    /\ op = "endpoints" /\ CanArrive
    /\ LET req == Arrives(user, "delete_quiz", id, NoBody)
       IN  IF Len(RowsOf(db.quizzes, id, user)) = 0
           THEN Answered(req, 404, NoBody, Started)
           ELSE Answered(req, 204, NoBody,
                    [Started EXCEPT
                       !.quizzes = Without(@, id),
                       !.quiz_attempts = SelectSeq(@, LAMBDA a : a.quiz_id # id),
                       !.reviews = SelectSeq(@, LAMBDA r : r.quiz_id # id)])

\* get_quiz_by_id, lines 150-164
GetQuizById(user, id) ==
    /\ op = "endpoints" /\ CanArrive
    /\ LET req == Arrives(user, "get_quiz_by_id", id, NoBody)
           found == RowsOf(db.quizzes, id, user)
       IN  IF Len(found) = 0
           THEN Answered(req, 404, NoBody, Started)
           ELSE Answered(req, 200, [rows |-> found], Started)

\* get_my_quizzes, lines 84-128
GetMyQuizzes(user) ==
    /\ op = "endpoints" /\ CanArrive
    /\ Answered(Arrives(user, "get_my_quizzes", 0, NoBody), 200,
                [rows |-> OwnedBy(db.quizzes, user)], Started)

\* get_review_detail, review.py lines 225-237
GetReviewDetail(user, id) ==
    /\ op = "endpoints" /\ CanArrive
    /\ LET req == Arrives(user, "get_review_detail", id, NoBody)
           found == RowsOf(db.reviews, id, user)
       IN  IF Len(found) = 0
           THEN Answered(req, 404, NoBody, Started)
           ELSE Answered(req, 200, [rows |-> found], Started)

\* get_my_reviews, review.py lines 165-196
GetMyReviews(user) ==
    /\ op = "endpoints" /\ CanArrive
    /\ Answered(Arrives(user, "get_my_reviews", 0, NoBody), 200,
                [rows |-> OwnedBy(db.reviews, user)], Started)

\* delete_review, review.py lines 275-290
DeleteReview(user, id) ==
    /\ op = "endpoints" /\ CanArrive
    /\ LET req == Arrives(user, "delete_review", id, NoBody)
       IN  IF Len(RowsOf(db.reviews, id, user)) = 0
           THEN Answered(req, 404, NoBody, Started)
           ELSE Answered(req, 204, NoBody, [Started EXCEPT !.reviews = Without(@, id)])

----
\* generate_review, review.py lines 38-94: what the handler decides before
\* the model is called; scalar_one_or_none raises when two reviews match
Gate(quizzes, existing, latest) ==
    CASE Len(quizzes) = 0 -> 404
      [] ~quizzes[1].is_completed -> 400
      [] Len(existing) > 1 -> 500
      [] Len(existing) = 1 -> 200
      [] Len(latest) = 0 -> 400
      [] OTHER -> 0

\* lines 114-122
NewReview(req, quiz, attempt, serial) ==
    [id |-> serial, user_id |-> req.user, quiz_id |-> quiz.id,
     answers |-> attempt.answers, quiz_score |-> quiz.score, created_at |-> req.began]

\* lines 38-109: the reads, then the model is called
ReviewLoads(user, id) ==
    /\ op = "endpoints" /\ CanArrive
    /\ LET req == Arrives(user, "generate_review", id, NoBody)
           found == RowsOf(db.quizzes, id, user)
           existing == ReviewsOf(db.reviews, id, user)
           latest == LatestAttempt(db.quiz_attempts, id)
           gate == Gate(found, existing, latest)
       IN  IF gate # 0
           THEN Answered(req, gate,
                         IF gate = 200 THEN [rows |-> existing] ELSE NoBody, Started)
           ELSE /\ requests' = Append(requests,
                     [request |-> req, quiz |-> found[1], graded |-> latest[1]])
                /\ calls' = [calls EXCEPT !.provider = @ + 1]
                /\ db' = Started
                /\ UNCHANGED frame
                /\ EndpointFrame

\* lines 111-136: the model answered with a valid document; the INSERT
\* violates the foreign key when the quiz was deleted meanwhile
ReviewStored(k) ==
    /\ op = "endpoints" /\ k \in 1..Len(requests)
    /\ requests[k].request.op = "generate_review"
    /\ LET r == requests[k]
           review == NewReview(r.request, r.quiz, r.graded, db.serial + 1)
       IN  IF Len(RowsNamed(db.quizzes, r.quiz.id)) = 0
           THEN Leaves(k, 500, NoBody, db)
           ELSE Leaves(k, 200, [rows |-> <<review>>],
                    [db EXCEPT !.reviews = Append(@, review), !.serial = @ + 1])

\* review_generator.py lines 169-184, review.py lines 140-146: the model
\* call or the validation of its document fails
ReviewFailsStored(k) ==
    /\ op = "endpoints" /\ k \in 1..Len(requests)
    /\ requests[k].request.op = "generate_review"
    /\ Leaves(k, 500, NoBody,
              [db EXCEPT !.reviews = Append(@, NewReview(requests[k].request, requests[k].quiz,
                                                         requests[k].graded, db.serial + 1)),
                         !.serial = @ + 1])
ReviewFails(k) ==
    /\ op = "endpoints" /\ k \in 1..Len(requests)
    /\ requests[k].request.op = "generate_review"
    /\ Leaves(k, 500, NoBody, db)

----
Users == {"u1", "u2"}

QuestionA == StoredQuestion(StrV(s_q1), IntV(1), Absent)
QuestionB == StoredQuestion(StrV(s_q2), StrV(<<"a">>), Absent)
QuestionC == StoredQuestion(StrV(<<"q", "3">>), Absent, Absent)

QuestionLists == {<<>>, <<QuestionA, QuestionB>>, <<QuestionA, QuestionB, QuestionC>>}

Answers(a1, a2) == [k \in {s_q1, s_q2} |-> IF k = s_q1 THEN a1 ELSE a2]

Submissions ==
    { [user_answers |-> Answers(Absent, Absent), duration_seconds |-> 5],
      [user_answers |-> Answers(IntV(1), StrV(<<"a">>)), duration_seconds |-> 7],
      [user_answers |-> Answers(StrV(<<"1">>), StrV(<<"b">>)), duration_seconds |-> 5] }

NewQuiz(id, user, qs) ==
    [id |-> id, user_id |-> user, questions |-> qs, is_completed |-> FALSE,
     completed_at |-> Null, score |-> Null, correct_answers |-> Null,
     wrong_answers |-> Null, duration_seconds |-> Null]

\* quiz 1 of u1 is new; quiz 2 of u2 was submitted once and has a review
InitialTables(qs) ==
    [quizzes |-> << NewQuiz(1, "u1", qs),
                    [NewQuiz(2, "u2", <<QuestionA>>) EXCEPT
                        !.is_completed = TRUE, !.completed_at = Val(0), !.score = Val(10000),
                        !.correct_answers = Val(1), !.wrong_answers = Val(0),
                        !.duration_seconds = Val(5)] >>,
     quiz_attempts |-> << [quiz_id |-> 2, score |-> 10000, correct_answers |-> 1,
                           wrong_answers |-> 0, answers |-> Answers(IntV(1), Absent),
                           duration_seconds |-> 5, created_at |-> 0] >>,
     reviews |-> << [id |-> 1, user_id |-> "u2", quiz_id |-> 2,
                     answers |-> Answers(IntV(1), Absent), quiz_score |-> Val(10000),
                     created_at |-> 0] >>,
     now |-> 0,
     serial |-> 1]

RowIds == {1, 2}

InitEndpoints ==
    /\ op = "endpoints"
    /\ pc = "serving"
    /\ calls = NoCalls
    /\ frame = NoFrame
    /\ db \in {InitialTables(qs) : qs \in QuestionLists}
    /\ requests = <<>>
    /\ QuizIdle
    /\ JsonIdle
    /\ QualityIdle
    /\ ConcurrentIdle
    /\ PromptIdle

NextEndpoints ==
    \/ \E user \in Users, id \in RowIds, input \in Submissions : SubmitLoads(user, id, input)
    \/ \E k \in 1..Len(requests) : SubmitCommits(k)
    \/ \E k \in 1..Len(requests) : SubmitFails(k)
    \/ \E user \in Users, id \in RowIds : DeleteQuiz(user, id)
    \/ \E user \in Users, id \in RowIds : GetQuizById(user, id)
    \/ \E user \in Users : GetMyQuizzes(user)
    \/ \E user \in Users, id \in RowIds : ReviewLoads(user, id)
    \/ \E k \in 1..Len(requests) : ReviewStored(k)
    \/ \E k \in 1..Len(requests) : ReviewFails(k)
    \/ \E user \in Users, id \in RowIds : GetReviewDetail(user, id)
    \/ \E user \in Users : GetMyReviews(user)
    \/ \E user \in Users, id \in RowIds : DeleteReview(user, id)

SpecEndpoints == InitEndpoints /\ [][NextEndpoints]_vars

-----------------------------------------------------------------------------
(* get_user_repositories: the pages of GET /user/repos *)

MAX_PAGINATION_PAGES == 10

\* what one requests.get and its handling can give (repo.py lines 48-76)
RepoPages == {<<>>, <<"a">>, <<"a", "b">>}
PageOutcomes ==
    {[kind |-> "page", current_repos |-> current_repos] : current_repos \in RepoPages}
      \cup {[kind |-> k, current_repos |-> <<>>] : k \in {"Timeout", "HTTPError", "Exception"}}

\* lines 46-77: the locals after one iteration of the loop
AfterPageSamePage(locals, outcome) ==
    CASE outcome.kind = "Timeout" -> [locals EXCEPT !.pc = "raised", !.status = 504]
      [] outcome.kind \in {"HTTPError", "Exception"} -> [locals EXCEPT !.pc = "returned"]
      [] Len(outcome.current_repos) = 0 -> [locals EXCEPT !.pc = "returned"]
      [] OTHER ->
            [locals EXCEPT !.all_repos = @ \o outcome.current_repos,
                           !.page_count = @ + 1,
                           !.pc = IF locals.page_count + 1 >= MAX_PAGINATION_PAGES
                                  THEN "returned" ELSE "looping"]
AfterPage(locals, outcome) ==
    CASE outcome.kind = "Timeout" -> [locals EXCEPT !.pc = "raised", !.status = 504]
      [] outcome.kind \in {"HTTPError", "Exception"} -> [locals EXCEPT !.pc = "returned"]
      [] Len(outcome.current_repos) = 0 -> [locals EXCEPT !.pc = "returned"]
      [] OTHER ->
            [locals EXCEPT !.all_repos = @ \o outcome.current_repos,
                           !.page = @ + 1,
                           !.page_count = @ + 1,
                           !.pc = IF locals.page_count + 1 >= MAX_PAGINATION_PAGES
                                  THEN "returned" ELSE "looping"]

\* one iteration: the page params["page"] is requested, the answer handled
RequestPage ==
    /\ op = "get_user_repositories" /\ pc = "looping"
    /\ \E outcome \in PageOutcomes :
          frame' = AfterPage([frame EXCEPT !.requested = Append(@, frame.page)], outcome)
    /\ pc' = frame'.pc
    /\ UNCHANGED <<op, calls, db, requests>>
    /\ UNCHANGED <<quizVars, jsonVars, qualityVars, concurrentVars, promptVars>>

InitRepos ==
    /\ op = "get_user_repositories"
    /\ pc = "looping"
    /\ calls = NoCalls
    /\ frame = [pc |-> "looping", page |-> 1, page_count |-> 0, all_repos |-> <<>>,
                requested |-> <<>>, status |-> 200]
    /\ db = NoTables
    /\ requests = <<>>
    /\ QuizIdle
    /\ JsonIdle
    /\ QualityIdle
    /\ ConcurrentIdle
    /\ PromptIdle

NextRepos == RequestPage

SpecRepos == InitRepos /\ [][NextRepos]_vars

\* the call is one synchronous loop and every requests.get returns or raises
\* within its timeout, so an iteration that can be taken is taken
SpecReposFair == SpecRepos /\ WF_vars(RequestPage)

-----------------------------------------------------------------------------
(* Claims about the quiz questions the calls return *)

QuizCall == op = "generate_quiz"
SessionCall == op = "generate_learning_session"
Returned == pc = "done" /\ result.status = "ok"

\* the data-model invariant of a 'multiple' question
MultipleInRange(q) ==
    /\ IsList(q.options)
    /\ 2 <= Len(q.options.l) /\ Len(q.options.l) <= 4
    /\ q.correctAnswer.tag = "int"
    /\ 0 <= q.correctAnswer.n /\ q.correctAnswer.n < Len(q.options.l)

AllMultipleInRange(qs) ==
    \A i \in 1..Len(qs) : qs[i].type.s = s_multiple => MultipleInRange(qs[i])

\* C1: every 'multiple' question of a result of generate_quiz (and of the
\* list it is building) has 2..4 options and an integer correctAnswer that
\* indexes them.
C1_QuizMultipleInRange ==
    QuizCall => AllMultipleInRange(questions) /\ AllMultipleInRange(result.questions)

\* C1 witness: a returned 'multiple' question whose raw item listed more
\* than four options.
C1_Witness ==
    /\ QuizCall /\ Returned
    /\ Len(response.items) = 1
    /\ Len(response.items[1].options.l) > 4
    /\ Len(result.questions) = 1
    /\ result.questions[1].type.s = s_multiple

\* C2: every 'multiple' question of a result of generate_learning_session
\* has 2..4 options and an integer correctAnswer that indexes them.
C2_SessionMultipleInRange ==
    (SessionCall /\ Returned) => AllMultipleInRange(result.questions)

\* C3: generate_quiz never returns an empty questions list; when no item
\* survives (an empty list included) the call ends in an error.
C3_QuizNeverEmpty ==
    (QuizCall /\ pc = "done") =>
        /\ result.status \in {"ok", "error"}
        /\ result.status = "ok" => Len(result.questions) > 0
        /\ questions = <<>> => result.status = "error"

\* C3 witness: a response with items, all of them dropped, ended in the
\* no-valid-questions error.
C3_Witness ==
    /\ QuizCall /\ pc = "done"
    /\ Len(response.items) > 1
    /\ idx = Len(response.items)
    /\ result.status = "error" /\ result.error = "no_valid_questions"

\* C4: generate_learning_session never returns an empty questions list.
C4_SessionNeverEmpty ==
    (SessionCall /\ Returned) => Len(result.questions) > 0

-----------------------------------------------------------------------------
(* C5: what a response of well-formed items and items without options gives *)

Decodes ==
    /\ ~response.raised /\ response.isDict
    /\ response.hasQuestions /\ response.iterable

\* a non-empty text with no white space at either end
Trimmed(s) == Len(s) > 0 /\ s[1] \notin Whitespace /\ s[Len(s)] \notin Whitespace
TrimmedStr(v) == IsStr(v) /\ Trimmed(v.s)

\* an item that already is a QuizQuestion of the data model
IsWellFormed(item) ==
    /\ item.isDict
    /\ item.id.tag = "absent" \/ IsStr(item.id)
    /\ TrimmedStr(item.question)
    /\ IsNone(item.codeContext)
         \/ (IsStr(item.codeContext) /\ Len(item.codeContext.s) <= 800)
    /\ IsNone(item.explanation) \/ TrimmedStr(item.explanation)
    /\ IsStr(item.type)
    /\ \/ /\ item.type.s = s_multiple
          /\ IsList(item.options)
          /\ \A i \in 1..Len(item.options.l) : TrimmedStr(item.options.l[i])
          /\ MultipleInRange(item)
       \/ /\ item.type.s = s_short
          /\ IsNone(item.options)
          /\ TrimmedStr(item.correctAnswer)

\* a 'multiple' item malformed by having no options
IsWithoutOptions(item) ==
    /\ item.isDict
    /\ IsStr(item.type) /\ item.type.s = s_multiple
    /\ item.options.tag = "absent"

\* the question a well-formed item is, at (1-based) position k
AsQuestion(item, k) ==
    [id |-> IF IsStr(item.id) THEN item.id ELSE StrV(<<"q">> \o IntToStr(k)),
     type |-> item.type, question |-> item.question,
     codeContext |-> OrNone(item.codeContext), options |-> OrNone(item.options),
     correctAnswer |-> item.correctAnswer, explanation |-> OrNone(item.explanation)]

\* the well-formed items of the response, in order
RECURSIVE WellFormedUpTo(_, _)
WellFormedUpTo(items, k) ==
    IF k = 0 THEN <<>>
    ELSE IF IsWellFormed(items[k])
    THEN Append(WellFormedUpTo(items, k - 1), AsQuestion(items[k], k))
    ELSE WellFormedUpTo(items, k - 1)

ExpectedQuestions == WellFormedUpTo(response.items, Len(response.items))

\* C5: of n items, k without options and n-k well-formed, generate_quiz
\* returns exactly the n-k well-formed ones, generatedCount = n-k and
\* requestedCount = the requested count (with n-k = 0 the call fails, C3).
C5_DropsOnlyMalformed ==
    ( /\ QuizCall /\ pc = "done" /\ Decodes
      /\ \A i \in 1..Len(response.items) :
            IsWellFormed(response.items[i]) \/ IsWithoutOptions(response.items[i]) )
    => IF ExpectedQuestions = <<>> THEN result.status = "error"
       ELSE /\ result.status = "ok"
            /\ result.questions = ExpectedQuestions
            /\ result.generatedCount = Len(ExpectedQuestions)
            /\ result.generatedCount = Len(result.questions)
            /\ result.requestedCount = request.question_count

\* C5 witness: 4 well-formed items and 1 without options, count 5: 4
\* questions, generatedCount 4, requestedCount 5.
C5_Witness ==
    /\ QuizCall /\ Returned /\ Decodes
    /\ Len(response.items) = 5
    /\ Cardinality({i \in 1..5 : IsWithoutOptions(response.items[i])}) = 1
    /\ Cardinality({i \in 1..5 : IsWellFormed(response.items[i])}) = 4
    /\ request.question_count = 5
    /\ Len(result.questions) = 4
    /\ result.generatedCount = 4 /\ result.requestedCount = 5

-----------------------------------------------------------------------------
(* C6, C7: the per-item rules, read off the last item the loop handled *)

\* the item the last iteration of generate_quiz handled
QuizHandled == QuizCall /\ idx >= 1
LastItem == response.items[idx]

\* a 'multiple' item, well-formed but for a string correctAnswer
HasStringAnswer(item) ==
    /\ item.isDict /\ item.correctAnswer.tag = "str"
    /\ IsWellFormed([item EXCEPT !.correctAnswer = IntV(0)])
    /\ item.type.s = s_multiple

OptionTexts(item) == [i \in 1..Len(item.options.l) |-> item.options.l[i].s]

\* the indexes (0-based) of the options equal to the text, case ignored
EqualOptions(a, opts) == {i \in 0..(Len(opts) - 1) : Lower(a) = Lower(opts[i + 1])}

ResolvedTo(k) == lastNorm.status = "ok" /\ lastNorm.q.correctAnswer = IntV(k)

\* C6: a string answer equal (case ignored) to option o_i resolves to i;
\* "option 3" resolves to 2; a string that matches no option and no rule
\* makes the question be skipped, not raised.  (The text that is an integer
\* literal is left to the integer rule, which comes first.)
C6_AnswerIndexResolution ==
    (QuizHandled /\ HasStringAnswer(LastItem)) =>
        LET a == LastItem.correctAnswer.s
            opts == OptionTexts(LastItem)
        IN  /\ (~IsDigit(a) /\ EqualOptions(a, opts) # {}) =>
                    \E i \in EqualOptions(a, opts) :
                        /\ ResolvedTo(i)
                        /\ \A j \in EqualOptions(a, opts) : i <= j
            /\ (a = s_option3 /\ Len(opts) >= 3) => ResolvedTo(2)
            /\ ( /\ Trimmed(a) /\ ~IsDigit(a) /\ EqualOptions(a, opts) = {}
                 /\ ~StartsWith(a, s_option) ) => lastNorm.status = "skip"

\* the default of an absent type: options "present" read as non-empty
DefaultType(item) == IF Truthy(item.options) THEN s_multiple ELSE s_short

\* the type as text, trimmed and lower-cased (empty when absent)
GivenType(item) ==
    IF item.type.tag = "absent" THEN <<>> ELSE Lower(Strip(PyStr(item.type)))

\* the type the claim's rule gives, <<"skip">> for a type it rejects
ClaimedType(item) ==
    CASE GivenType(item) = <<>> -> DefaultType(item)
      [] GivenType(item) \in {s_objective, s_multiple_choice, s_mcq, s_multiple}
            -> s_multiple
      [] GivenType(item) \in {s_subjective, s_descriptive, s_open_ended,
                              s_short_answer, s_short} -> s_short
      [] OTHER -> <<"skip">>

\* the same with open-ended (with a hyphen) an alias of short too
AmendedType(item) ==
    IF GivenType(item) = s_open_hyphen_ended THEN s_short ELSE ClaimedType(item)

\* an item of TypeItems that is well-formed but for its type
OnlyTypeVaries(item) ==
    /\ item.isDict
    /\ item.options = ListV(OptABCD)
    /\ item.correctAnswer = IntV(1)
    /\ [item EXCEPT !.type = StrV(s_multiple)] = WellFormed

TypeResolvedAs(expected) ==
    /\ expected = <<"skip">> => lastNorm.status = "skip"
    /\ lastNorm.status = "ok" => lastNorm.q.type.s = expected
    /\ (OnlyTypeVaries(LastItem) /\ expected # <<"skip">>) => lastNorm.status = "ok"

\* C7 as stated: lower-cased type; objective, multiple_choice, mcq ->
\* multiple; subjective, descriptive, open_ended, short_answer -> short;
\* absent -> multiple with options, short without; any other type skipped.
\* (Read in the code's favour: the type is trimmed too, and an empty type
\* counts as absent.)
C7_TypeResolutionAsStated ==
    (QuizHandled /\ LastItem.isDict) => TypeResolvedAs(ClaimedType(LastItem))

\* C7 amended: as stated, but open-ended (with a hyphen) is an alias of short
\* as well, so that type is resolved and kept, not skipped.
C7_TypeResolution ==
    (QuizHandled /\ LastItem.isDict) => TypeResolvedAs(AmendedType(LastItem))

\* C7 witness: the type "open-ended" was resolved to short and kept.
C7_Witness ==
    /\ QuizHandled /\ LastItem.isDict
    /\ LastItem.type = StrV(s_open_hyphen_ended)
    /\ lastNorm.status = "ok" /\ lastNorm.q.type.s = s_short

-----------------------------------------------------------------------------
(* C8: the three code-quality scores *)

QualityKeys == {"readability", "performance", "security"}
QualityDone == op = "validate_quality_scores" /\ pc = "done"

\* a number, or a text that reads as a whole number
IsNumeric(v) ==
    \/ v.tag \in {"int", "bool", "float", "inf"}
    \/ v.tag = "str" /\ IntOfText(Strip(v.s)).raised = ""

\* the whole number an input stands for; an infinite one lies beyond either end
WholeNumber(v) ==
    CASE v.tag \in {"int", "bool"} -> v.n
      [] v.tag = "float" -> Truncated(v.n)
      [] v.tag = "inf" -> v.n * (MaxScore + 1)
      [] v.tag = "str" -> IntOfText(Strip(v.s)).v

ClampedTo(k, low, high) == IF k < low THEN low ELSE IF k > high THEN high ELSE k

ExpectedScore(v) ==
    IF IsNumeric(v) THEN ClampedTo(WholeNumber(v), 0, 100) ELSE 75

\* C8: for every raw quality object the normalization returns three integer
\* scores in [0,100], each the input coerced to int and clamped to the range,
\* or 75 when the input is missing or non-numeric (150 -> 100, -5 -> 0,
\* 'abc' -> 75).
C8_QualityScoresClamped ==
    QualityDone =>
        /\ scores.status = "ok"
        /\ \A key \in QualityKeys :
              /\ scores[key] \in 0..100
              /\ scores[key] = ExpectedScore(quality[key])

-----------------------------------------------------------------------------
(* C9, C10: generate_json *)

JsonDone == op = "generate_json" /\ pc = "done"
\* generate_content handed the reply's text to generate_json
GaveText == service.is_configured /\ reply.kind = "ok" /\ reply.content # <<>>

\* t is `inner` as it stands, or `inner` between an opening and a closing fence
WrapsOrIs(t, inner) ==
    \/ t = inner
    \/ \E open \in {s_fence_json, s_fence}, pad1 \in Pads, pad2 \in Pads :
          t = open \o pad1 \o inner \o pad2 \o s_fence

\* C9: when the model text, trimmed, is a valid JSON document between a
\* leading fence (with or without the json tag) and a trailing fence, or the
\* bare document, generate_json returns the object the document decodes to,
\* after one decode and without calling the repair.
C9_FencedJsonReturnedUnchanged ==
    JsonDone /\ GaveText =>
        \A d \in JsonDocuments :
            WrapsOrIs(Strip(reply.content), d.chars) =>
                /\ returned = Returns(d.value)
                /\ calls.repair = 0
                /\ calls.decode = 1

C9_Witness ==
    /\ JsonDone
    /\ reply.content = <<"\n">> \o s_fence_json \o <<"\n">>
                        \o <<"{", "\"", "a", "\"", ":", "1", "}">>
                        \o <<"\n">> \o s_fence
    /\ returned = Returns(DictV(<< <<StrV(<<"a">>), IntV(1)>> >>))
    /\ calls.repair = 0

\* the exception holds the text t: the message is built from the decode
\* error's message alone, the chained JSONDecodeError keeps its document
Carries(error, t) == error.context_doc = t

\* C10: when the strict decode of the fence-stripped text fails, the repair is
\* attempted exactly once and its output decoded, with no further repair or
\* decode; if the call then fails, the error carries the original text and
\* the repaired text.
C10_RepairOnceErrorCarriesTexts ==
    JsonDone /\ GaveText /\ ~JsonLoads(cleaned).ok =>
        /\ calls.repair = 1
        /\ calls.decode <= 2
        /\ returned.status = "error" =>
              /\ Carries(returned.error, text) \/ Carries(returned.error, cleaned)
              /\ calls.decode = 2 => Carries(returned.error, repaired)

-----------------------------------------------------------------------------
(* C11, C12: the model client inside an orchestration call *)

OrchestrationReturned == op \in OrchestrationOps /\ pc = "returned"

\* C11: during one orchestration call at most one request is sent to the
\* provider, whatever the reply (timeout, non-200 status, no choices, empty
\* content, finish_reason length, undecodable text), and every failure of the
\* model client ends the call with an error.
C11_AtMostOneProviderRequest ==
    /\ calls.provider <= 1
    /\ OrchestrationReturned /\ returned.status = "error" =>
          result.status = "error"

C11_Witness ==
    /\ OrchestrationReturned
    /\ reply.kind = "timeout"
    /\ calls.provider = 1
    /\ result.status = "error"

\* the reply the provider would give had the answer ended on its own
NotCut(r) == [r EXCEPT !.finish_reason = "stop"]

\* C12: when the reply has no usable text and finish_reason is length, the
\* error raised by the model client differs from the error raised for the
\* same empty reply that was not cut at the token budget.
C12_LengthTruncationDistinguished ==
    /\ JsonDone /\ service.is_configured
    /\ reply.kind = "ok" /\ reply.content = <<>> /\ reply.finish_reason = "length"
    => /\ returned.status = "error"
       /\ returned.error # ContentOf(NotCut(reply)).error

-----------------------------------------------------------------------------
(* C13: analyze_commit and the four required fields *)

AnalyzeDone == op = "analyze_commit" /\ pc = "done"

\* C13: analyze_commit returns an analysis only when the decoded response
\* holds all four of summary, quality, suggestions and potentialBugs; when any
\* one of them is absent the call fails and returns no analysis.
C13_AllFourFieldsRequired ==
    AnalyzeDone =>
        /\ result.status \in {"ok", "error"}
        /\ result.status = "ok" =>
              /\ ~response.raised /\ response.isDict
              /\ \A field \in {"summary", "quality", "suggestions", "potentialBugs"} :
                    response[field].tag # "absent"
        /\ (\E field \in {"summary", "quality", "suggestions", "potentialBugs"} :
               response[field].tag = "absent") =>
              /\ result.status = "error"
              /\ result.summary = None

C13_Witness ==
    /\ AnalyzeDone
    /\ response.summary = StrV(s_ok)
    /\ response.quality.tag = "dict"
    /\ response.suggestions = ListV(<<>>)
    /\ response.potentialBugs = Absent
    /\ result.status = "error"

-----------------------------------------------------------------------------
(* C14: the combined learning session *)

ServiceReturned == op = "generate_learning_session" /\ pc = "done"
EndpointResponded == op = "generate_learning_session" /\ pc = "responded"

\* C14: the combined learning-session operation makes one model call whose
\* response holds the quiz payload and the review payload under sibling keys;
\* the service fails when the top-level key of either payload is missing, and
\* when both are there and the service succeeds the caller is answered with
\* the quiz and the review.
C14_SessionReturnsQuizAndReview ==
    /\ calls.provider <= 1
    /\ ServiceReturned /\ ~response.raised /\ ~(response.hasQuestions /\ response.hasReview)
          => result.status = "error"
    /\ EndpointResponded /\ ~response.raised /\ response.hasQuestions /\ response.hasReview
          => result.status = "http_200"

-----------------------------------------------------------------------------
(* C15: concurrent calls *)

\* the services a set of calls has asked for
AskedFor ==
    UNION { {ServiceOf(inputs[i].op), "gemini_service"} :
              i \in {j \in Calls : frames[j].pc # "start"} }

-----------------------------------------------------------------------------
(* C16: responses whose questions all lack the answer *)

AllItems(P(_)) == \A i \in 1..Len(response.items) : P(response.items[i])

MissesCorrectAnswer(item) == item.isDict /\ item.correctAnswer.tag = "absent"

\* no correctAnswer and nothing the answer could be taken from instead
LacksAnswer(item) ==
    /\ MissesCorrectAnswer(item)
    /\ IsNone(item.answer) /\ IsNone(item.shortAnswer) /\ IsNone(item.expectedAnswer)
    /\ \/ IsNone(item.explanation)
       \/ /\ item.type = StrV(s_multiple)
          /\ IsStr(item.explanation)
          /\ ~Contains(item.explanation.s, s_answer_marker)

\* C16 as stated: when every question of the response is missing the
\* correctAnswer field, generate_quiz raises the no-valid-questions error.
C16_MissingCorrectAnswerAsStated ==
    QuizCall /\ pc = "done" /\ Decodes /\ AllItems(MissesCorrectAnswer)
        => result.status = "error" /\ result.error = "no_valid_questions"

\* C16: when every question of the response is missing the correctAnswer
\* field and has no other source of the answer (answer, shortAnswer,
\* expectedAnswer, an explanation; for a 'multiple' question an explanation
\* with the answer marker), generate_quiz raises the no-valid-questions error
\* and returns no list.
C16_NoAnswerNoQuiz ==
    QuizCall /\ pc = "done" /\ Decodes /\ AllItems(LacksAnswer)
        => /\ result.status = "error" /\ result.error = "no_valid_questions"
           /\ result.questions = <<>>
           /\ questions = <<>>

C16_Witness ==
    /\ QuizCall /\ pc = "done" /\ Decodes
    /\ Len(response.items) = MaxQuestions
    /\ AllItems(LacksAnswer)
    /\ \E i \in 1..Len(response.items) : response.items[i].type = StrV(s_multiple)
    /\ \E i \in 1..Len(response.items) : response.items[i].type = StrV(s_short)
    /\ result.status = "error" /\ result.error = "no_valid_questions"

-----------------------------------------------------------------------------
(* C17: a string answer and the answer marker of the explanation *)

\* none of the integer, option-text and "option N" rules applies to the text
FailsStringRules(a, opts) ==
    /\ ~IsDigit(a)
    /\ EqualOptions(a, opts) = {}
    /\ ~StartsWith(a, s_option)

\* the token that follows the answer marker in the explanation
MarkerToken(explanation) ==
    FirstLine(Strip(AfterFirst(explanation, s_answer_marker)))

HasMarker(item) ==
    IsStr(item.explanation) /\ Contains(item.explanation.s, s_answer_marker)

\* C17: a string correctAnswer of a 'multiple' question that fails the
\* integer, option-text and "option N" rules is resolved from the token
\* after the answer marker of the explanation when there is one, before the
\* question is considered for skipping.
C17_StringAnswerFallsBackToMarker ==
    ( /\ QuizHandled /\ HasStringAnswer(LastItem) /\ HasMarker(LastItem)
      /\ FailsStringRules(Strip(LastItem.correctAnswer.s), OptionTexts(LastItem)) )
    => LET token == MarkerToken(LastItem.explanation.s)
           opts == OptionTexts(LastItem)
       IN  /\ (IntParses(token) /\ ToInt(token) < Len(opts)) => ResolvedTo(ToInt(token))
           /\ (~IsDigit(token) /\ EqualOptions(token, opts) # {}) =>
                 \E i \in EqualOptions(token, opts) : ResolvedTo(i)

-----------------------------------------------------------------------------
(* C18: where the answer of a 'short' question is taken from *)

\* a 'short' item, well-formed but for the fields the answer may come from
IsShortItem(item) ==
    /\ item.isDict
    /\ item.type \in {Absent, StrV(s_short)}
    /\ IsWellFormed([item EXCEPT !.type = StrV(s_short),
                                 !.correctAnswer = StrV(<<"x">>),
                                 !.explanation = None])

\* the text a candidate field yields: nothing for a missing value, an empty
\* text or an empty list; the element of a one-element list
CandidateText(c) ==
    IF IsNone(c) THEN <<>>
    ELSE IF IsList(c)
    THEN IF Len(c.l) = 1 /\ ~IsNone(c.l[1]) THEN Strip(PyStr(c.l[1])) ELSE <<>>
    ELSE Strip(PyStr(c))

AnswerFields(item) ==
    <<item.correctAnswer, item.answer, item.shortAnswer, item.expectedAnswer>>

\* the first text the fields yield in priority order, else the first line
\* of the explanation, else nothing
ShortAnswerText(item) ==
    LET fields == AnswerFields(item)
        yielding == {i \in 1..Len(fields) : CandidateText(fields[i]) # <<>>}
    IN  IF yielding # {}
        THEN CandidateText(fields[CHOOSE i \in yielding : \A j \in yielding : i <= j])
        ELSE IF IsStr(item.explanation)
        THEN Strip(FirstLine(Strip(item.explanation.s)))
        ELSE <<>>

\* C18: the correctAnswer of a 'short' question is the first non-empty text
\* among correctAnswer, answer, shortAnswer, expectedAnswer (a one-element
\* list unwrapped), else the first line of the explanation; when nothing
\* yields text (an empty list included) the question is skipped.
C18_ShortAnswerPriority ==
    (QuizHandled /\ IsShortItem(LastItem)) =>
        IF ShortAnswerText(LastItem) # <<>>
        THEN /\ lastNorm.status = "ok"
             /\ lastNorm.q.correctAnswer = StrV(ShortAnswerText(LastItem))
        ELSE lastNorm.status = "skip"

-----------------------------------------------------------------------------
(* C19: how much of a commit a prompt embeds *)

Built == op \in PromptBuilders /\ pc = "built"

FileLimit == 5
Budgets == 800..1200
Markers == {s_omitted, s_ellipsis}

\* the Diff block is the first B characters of the patch, followed by the
\* marker exactly when the patch is longer than B
CutTo(diff, patch, B, marker) ==
    /\ IsStr(diff)
    /\ Len(diff.s) = IF Len(patch) > B THEN B + Len(marker) ELSE Len(patch)
    /\ diff.s = IF Len(patch) > B THEN SubSeq(patch, 1, B) \o marker ELSE patch

PatchesCut ==
    \E B \in Budgets : \E marker \in Markers :
        \A i \in 1..Len(commit_info) :
            Truthy(commit.files[i].patch) =>
                CutTo(commit_info[i].diff, commit.files[i].patch.s, B, marker)

\* C19: every prompt builder embeds at most 5 files of a commit, whatever
\* the number of its files, and of each embedded file at most the first B
\* characters of the patch, B a fixed budget between 800 and 1200, with the
\* truncation marker appended exactly when the patch is longer than B.
C19_PromptEmbedsBounded ==
    Built => /\ Len(commit_info) <= FileLimit
             /\ \A i \in 1..Len(commit_info) :
                    commit_info[i].filename = commit.files[i].filename
             /\ PatchesCut

-----------------------------------------------------------------------------
(* C20: malformed items among well-formed ones *)

KnownTypeNames ==
    {s_multiple, s_short, s_objective, s_multiple_choice, s_mcq, s_subjective,
     s_descriptive, s_open_ended, s_open_hyphen_ended, s_short_answer}

HasUnknownType(item) ==
    /\ IsStr(item.type) /\ Strip(item.type.s) # <<>>
    /\ Lower(Strip(item.type.s)) \notin KnownTypeNames

HasTooFewOptions(item) ==
    /\ item.type = StrV(s_multiple)
    /\ IsNone(item.options) \/ (IsList(item.options) /\ Len(item.options.l) < 2)

\* the type is 'multiple' or one of its aliases, in any case
IsMultipleType(type) ==
    /\ IsStr(type)
    /\ Lower(Strip(type.s)) \in {s_multiple, s_objective, s_multiple_choice, s_mcq}

HasAnswerOutOfRange(item) ==
    /\ IsMultipleType(item.type)
    /\ item.correctAnswer.tag = "int"
    /\ IsWellFormed([item EXCEPT !.type = StrV(s_multiple), !.correctAnswer = IntV(0)])
    /\ item.correctAnswer.n < 0 \/ item.correctAnswer.n >= Len(item.options.l)

IsSchemaInvalid(item) ==
    item.id.tag \notin {"absent", "str"} \/ IsNone(item.question)

\* the kinds of malformed item the rule names
IsMalformed(item) ==
    \/ ~item.isDict
    \/ /\ item.isDict
       /\ \/ HasUnknownType(item)
          \/ HasTooFewOptions(item)
          \/ HasAnswerOutOfRange(item)
          \/ LacksAnswer(item) /\ item.type \in {StrV(s_multiple), StrV(s_short)}
          \/ IsSchemaInvalid(item)

\* a is b with some elements left out
RECURSIVE IsSubsequence(_, _)
IsSubsequence(a, b) ==
    IF a = <<>> THEN TRUE
    ELSE IF b = <<>> THEN FALSE
    ELSE IF Head(a) = Head(b) THEN IsSubsequence(Tail(a), Tail(b))
    ELSE IsSubsequence(a, Tail(b))

\* C20: in generate_quiz a malformed item is skipped without failing the
\* call: when the 'questions' key is present, every well-formed item of the
\* response is returned, in the order of the response, whatever the other
\* items are; and when the others are all malformed, nothing else is.
C20_MalformedSkippedRestKept ==
    (QuizCall /\ pc = "done" /\ Decodes /\ ExpectedQuestions # <<>>) =>
        /\ result.status = "ok"
        /\ IsSubsequence(ExpectedQuestions, result.questions)
        /\ AllItems(LAMBDA item : IsWellFormed(item) \/ IsMalformed(item))
              => result.questions = ExpectedQuestions

\* C20 witness: a malformed item between two different well-formed ones;
\* the two are returned, in their order.
C20_Witness ==
    /\ QuizCall /\ Returned /\ Decodes
    /\ Len(response.items) = 3
    /\ IsWellFormed(response.items[1]) /\ IsWellFormed(response.items[3])
    /\ IsMalformed(response.items[2]) /\ response.items[2].isDict
    /\ response.items[1].type # response.items[3].type
    /\ result.questions = <<AsQuestion(response.items[1], 1),
                            AsQuestion(response.items[3], 3)>>

-----------------------------------------------------------------------------
(* C21: the commits are all collected before the model is called *)

InPipeline == op \in LearningEndpoints

ModelCalled == calls.provider > 0 \/ \E k \in 1..Len(frame.events) : frame.events[k] = "model"

\* an identifier with no "owner/repo:" or "repo_id:" in front of the sha
IsMalformedIdentifier(commit_identifier) ==
    \/ \A k \in 1..Len(commit_identifier) : commit_identifier[k] # ":"
    \/ LET colon == CHOOSE k \in 1..Len(commit_identifier) :
                        /\ commit_identifier[k] = ":"
                        /\ \A j \in 1..(k - 1) : commit_identifier[j] # ":"
       IN  /\ \A j \in 1..(colon - 1) : commit_identifier[j] # "/"
           /\ \/ colon = 1
              \/ \E j \in 1..(colon - 1) : ~IsDigitChar(commit_identifier[j])

\* the events of a request that got to the model: one fetch for each
\* identifier, then the prompt, then the model call
FetchesThenPromptThenModel(n) == [k \in 1..(n + 2) |-> IF k <= n THEN "fetch"
                                                       ELSE IF k = n + 1 THEN "prompt"
                                                       ELSE "model"]

-----------------------------------------------------------------------------
(* C22: the two sets of the review prompt *)

ReviewBuilt == op = "_build_review_prompt" /\ pc = "built"

\* the text str() gives for an answer
Coerced(v) ==
    CASE v.tag = "str" -> v.s
      [] v.tag \in {"absent", "none"} -> s_None
      [] v.tag = "bool" -> IF v.n = 1 THEN s_True ELSE s_False
      [] v.tag = "int" -> IntToStr(v.n)
      [] v.tag = "float" -> IntToStr(v.n \div 10) \o <<".">> \o IntToStr(v.n % 10)
      [] OTHER -> <<"?">>

\* equal by value: the same text, the same number (True counting as 1), or
\* both missing
SameValue(a, b) ==
    \/ IsStr(a) /\ IsStr(b) /\ a.s = b.s
    \/ IsNumber(a) /\ IsNumber(b) /\ Tenths(a) = Tenths(b)
    \/ IsNone(a) /\ IsNone(b)

CountOf(summaries, id) ==
    Cardinality({k \in 1..Len(summaries) : summaries[k].id = OrNone(id)})

\* C22: the review-prompt builder places every question in exactly one of
\* the sets correct / incorrect; a question is in the correct set iff the
\* user's answer for its id equals its correctAnswer by value or their string
\* coercions are equal; the two counts of the prompt sum to the number of
\* questions.
C22_ReviewPartition ==
    ReviewBuilt =>
        /\ Len(frame.correct_questions) + Len(frame.wrong_questions) = Len(frame.questions)
        /\ \A k \in 1..Len(frame.questions) :
              CountOf(frame.correct_questions, frame.questions[k].id)
                + CountOf(frame.wrong_questions, frame.questions[k].id)
              = Cardinality({j \in 1..Len(frame.questions) :
                                OrNone(frame.questions[j].id) = OrNone(frame.questions[k].id)})
        /\ \A k \in 1..Len(frame.correct_questions) :
              LET q == frame.correct_questions[k]
              IN  SameValue(q.user_answer, q.correct_answer)
                    \/ Coerced(q.user_answer) = Coerced(q.correct_answer)
        /\ \A k \in 1..Len(frame.wrong_questions) :
              LET q == frame.wrong_questions[k]
              IN  /\ ~SameValue(q.user_answer, q.correct_answer)
                  /\ Coerced(q.user_answer) # Coerced(q.correct_answer)
        /\ ~frame.prompt.raised =>
              /\ frame.prompt.correct = Len(frame.correct_questions)
              /\ frame.prompt.wrong = Len(frame.wrong_questions)
              /\ frame.prompt.correct + frame.prompt.wrong = Len(frame.questions)

\* C22 witness: two questions, one answered with the text of its numeric
\* answer and so correct by coercion, the other answered wrongly.
C22_Witness ==
    /\ ReviewBuilt /\ ~frame.prompt.raised
    /\ Len(frame.questions) = 2
    /\ frame.prompt.correct = 1 /\ frame.prompt.wrong = 1
    /\ frame.correct_questions[1].user_answer = StrV(<<"1">>)
    /\ frame.correct_questions[1].correct_answer = IntV(1)

-----------------------------------------------------------------------------
(* C23: completion of a quiz *)

\* the step commits the submission j, which had loaded the quiz
CommitsSubmission(j) ==
    /\ j \in 1..Len(requests)
    /\ requests[j].request.op = "submit_quiz"
    /\ requests' = RemoveAt(requests, j)
    /\ frame'.pc = "done" /\ frame'.began = requests[j].request.began
    /\ frame'.status = 200

\* a later submission: it loaded the quiz after a completion was committed
LaterSubmission(row) ==
    \E j \in 1..Len(requests) :
        /\ CommitsSubmission(j)
        /\ requests[j].quiz.id = row.id
        /\ requests[j].quiz.is_completed

-----------------------------------------------------------------------------
(* C24: the Quiz row and its attempts *)

\* the step appends exactly one attempt or none
AppendsOne == \E a \in {db'.quiz_attempts[Len(db'.quiz_attempts)]} :
                  db'.quiz_attempts = Append(db.quiz_attempts, a)

FinishesSubmit == frame' # frame /\ frame'.pc = "done" /\ frame'.op = "submit_quiz"

\* no transaction is open
Quiescent == requests = <<>>

RowMatchesLatest(row) ==
    LET latest == LatestAttempt(db.quiz_attempts, row.id)
    IN  Len(latest) > 0 =>
          /\ row.score = Val(latest[1].score)
          /\ row.correct_answers = Val(latest[1].correct_answers)
          /\ row.wrong_answers = Val(latest[1].wrong_answers)

\* C24: each successful submit_quiz appends exactly one QuizAttempt and a
\* failed one appends none, and after any interleaving of submissions on the
\* same quiz, concurrent ones included, the score, correct_answers and
\* wrong_answers of the Quiz row equal those of its most recently created
\* QuizAttempt.
C24_RowEqualsLatestAttempt ==
    /\ [][FinishesSubmit =>
            IF frame'.status = 200
            THEN Len(db'.quiz_attempts) > 0 /\ AppendsOne
            ELSE db'.quiz_attempts = db.quiz_attempts]_vars
    /\ [](op = "endpoints" /\ Quiescent =>
            \A k \in 1..Len(db.quizzes) : RowMatchesLatest(db.quizzes[k]))

-----------------------------------------------------------------------------
(* C25: reviews of one quiz *)

\* C25: for any interleaving of generate_review requests at most one Review
\* row exists per (user_id, quiz_id): two requests for the same quiz never
\* both insert a Review.
C25_OneReviewPerQuiz ==
    op = "endpoints" =>
        \A user \in Users, id \in RowIds : Len(ReviewsOf(db.reviews, id, user)) <= 1

-----------------------------------------------------------------------------
(* C26: when generate_review calls the model and stores a review *)

\* the request that acts in the step: the one that finished, or the one that
\* arrived and stays in flight
Finishes == frame' # frame /\ frame'.pc = "done"
ArrivesNow == db'.now = db.now + 1
StaysInFlight == Len(requests') = Len(requests) + 1

HasAttempt(id) == Len(AttemptsOf(db.quiz_attempts, id)) > 0

-----------------------------------------------------------------------------
(* C27: the rows of another user *)

\* the user whose request acts in the step
ActingUser ==
    IF Finishes THEN frame'.user ELSE requests'[Len(requests')].request.user

QuizIdsOf(tables, user) ==
    {tables.quizzes[k].id : k \in {j \in 1..Len(tables.quizzes) : tables.quizzes[j].user_id = user}}

\* the quizzes, attempts and reviews a user owns
RowsOwned(tables, user) ==
    [quizzes |-> OwnedBy(tables.quizzes, user),
     quiz_attempts |-> SelectSeq(tables.quiz_attempts,
                                 LAMBDA a : a.quiz_id \in QuizIdsOf(tables, user)),
     reviews |-> OwnedBy(tables.reviews, user)]

QuizOperations == {"get_quiz_by_id", "submit_quiz", "delete_quiz", "generate_review"}
ReviewOperations == {"get_review_detail", "delete_review"}
ListOperations == {"get_my_quizzes", "get_my_reviews"}

NamesForeignRow ==
    \/ /\ frame'.op \in QuizOperations
       /\ Len(RowsNamed(db.quizzes, frame'.id)) = 1
       /\ RowsNamed(db.quizzes, frame'.id)[1].user_id # frame'.user
    \/ /\ frame'.op \in ReviewOperations
       /\ Len(RowsNamed(db.reviews, frame'.id)) = 1
       /\ RowsNamed(db.reviews, frame'.id)[1].user_id # frame'.user

\* C27: a get, submit, delete or generate-review request of user U that names
\* the id of a Quiz or Review row of another user V is answered 404 and
\* leaves every row of V (quizzes, attempts, reviews) unchanged; the list
\* operations return only rows whose user_id is U's.
C27_OwnershipIsolation ==
    [][/\ \A other \in Users :
            (db' # db /\ other # ActingUser) => RowsOwned(db', other) = RowsOwned(db, other)
       /\ (Finishes /\ ArrivesNow /\ NamesForeignRow) =>
            /\ frame'.status = 404
            /\ [db' EXCEPT !.now = db.now] = db
            /\ calls' = calls
       /\ (Finishes /\ frame'.status \in {200, 204} /\ frame'.op \notin ListOperations) =>
            ~NamesForeignRow
       /\ (Finishes /\ frame'.op \in ListOperations) =>
            \A k \in 1..Len(frame'.body.rows) : frame'.body.rows[k].user_id = frame'.user]_vars

\* C27 witness: u1 asked to delete quiz 2 of u2 and got 404; the quiz, its
\* attempt and its review are still there.
C27_Witness ==
    /\ op = "endpoints" /\ frame.pc = "done" /\ frame.op = "delete_quiz"
    /\ frame.user = "u1" /\ frame.id = 2 /\ frame.status = 404
    /\ Len(RowsOf(db.quizzes, 2, "u2")) = 1
    /\ HasAttempt(2)
    /\ Len(ReviewsOf(db.reviews, 2, "u2")) = 1

-----------------------------------------------------------------------------
(* C28: the figures of a submission *)

NewestAttempt == db'.quiz_attempts[Len(db'.quiz_attempts)]

-----------------------------------------------------------------------------
(* C29: questions without an answer *)

\* the user supplied an answer for the question: its id is a key of
\* user_answers
Supplied(user_answers, question) ==
    /\ IsStr(question.id)
    /\ question.id.s \in DOMAIN user_answers
    /\ user_answers[question.id.s] # Absent

NumSupplied(qs, user_answers) ==
    Cardinality({k \in 1..Len(qs) : Supplied(user_answers, qs[k])})

\* C29: in submit_quiz a question for which the user supplied no answer is
\* never counted as correct, whatever its stored correctAnswer is (absent and
\* null included).
C29_UnansweredNeverCorrect ==
    op = "endpoints" =>
        \A k \in 1..Len(db.quiz_attempts), j \in 1..Len(db.quizzes) :
            db.quizzes[j].id = db.quiz_attempts[k].quiz_id =>
                db.quiz_attempts[k].correct_answers
                    <= NumSupplied(db.quizzes[j].questions, db.quiz_attempts[k].answers)

-----------------------------------------------------------------------------
(* C30: get_user_repositories ends *)

InRepos == op = "get_user_repositories"

\* C30: get_user_repositories always terminates: it issues at most
\* MAX_PAGINATION_PAGES page requests, stops at the first empty page, on an
\* HTTP or unexpected error stops and returns the repositories collected so
\* far, on a timeout raises 504, and the page number requested grows by
\* exactly one per iteration.
C30_PaginationTerminates ==
    /\ [](InRepos =>
            /\ Len(frame.requested) <= MAX_PAGINATION_PAGES
            /\ \A k \in 1..Len(frame.requested) : frame.requested[k] = k
            /\ pc = "looping" => frame.page = Len(frame.requested) + 1
            /\ pc = "raised" <=> frame.status = 504)
    /\ [][InRepos =>
            /\ pc = "looping"
            /\ frame'.requested = Append(frame.requested, frame.page)
            /\ pc' = "looping" =>
                  /\ Len(frame'.all_repos) > Len(frame.all_repos)
                  /\ Len(frame'.requested) < MAX_PAGINATION_PAGES
            /\ pc' = "raised" => frame'.status = 504
            /\ (pc' = "returned" /\ Len(frame'.requested) < MAX_PAGINATION_PAGES) =>
                  frame'.all_repos = frame.all_repos]_vars
    /\ (InRepos => <>(pc \in {"returned", "raised"}))

\* C30 witness: ten pages were requested, each had repositories, and the call
\* returned them after the tenth.
C30_Witness ==
    /\ InRepos /\ pc = "returned"
    /\ Len(frame.requested) = MAX_PAGINATION_PAGES
    /\ frame.requested[MAX_PAGINATION_PAGES] = MAX_PAGINATION_PAGES
    /\ Len(frame.all_repos) >= MAX_PAGINATION_PAGES

====
